---------------------------- MODULE Spec2Model ----------------------------
(***************************************************************************)
(* Model of the transcript research agent:                                 *)
(*   - services/geminiService.ts: robustParseJSON (the resilient JSON      *)
(*     recovery parser) and analyzeTopic;                                  *)
(*   - the App component: handleSearch, handleStop and the resolution of   *)
(*     the request started by handleSearch.                                *)
(*                                                                         *)
(* A text is a sequence of characters, each character a one-character      *)
(* string ("<nbsp>" stands for the single character U+00A0).               *)
(***************************************************************************)
EXTENDS Integers, Sequences, FiniteSets, TLC

(***************************************************************************)
(* Characters                                                              *)
(***************************************************************************)
NBSP == "<nbsp>"

\* JSON's insignificant whitespace (what JSON.parse skips between tokens).
JsonWs == {" ", "\t", "\n", "\r"}

\* What String.prototype.trim strips: JSON's whitespace and more (U+00A0 here).
TrimWs == JsonWs \cup {NBSP}

Digits == {"0", "1", "2", "3", "4", "5", "6", "7", "8", "9"}

HexDigits == Digits \cup {"a", "b", "c", "d", "e", "f", "A", "B", "C", "D", "E", "F"}

DigitValue(c) ==
    CASE c = "0" -> 0 [] c = "1" -> 1 [] c = "2" -> 2 [] c = "3" -> 3
      [] c = "4" -> 4 [] c = "5" -> 5 [] c = "6" -> 6 [] c = "7" -> 7
      [] c = "8" -> 8 [] c = "9" -> 9

\* The character a two-character escape \c stands for inside a JSON string.
Unescape(c) ==
    CASE c = "\"" -> "\""
      [] c = "\\" -> "\\"
      [] c = "/"  -> "/"
      [] c = "b"  -> "<bs>"
      [] c = "f"  -> "\f"
      [] c = "n"  -> "\n"
      [] c = "r"  -> "\r"
      [] c = "t"  -> "\t"

SimpleEscapes == {"\"", "\\", "/", "b", "f", "n", "r", "t"}

(***************************************************************************)
(* String.prototype.trim                                                   *)
(***************************************************************************)
RECURSIVE TrimStart(_)
TrimStart(s) ==
    IF s # <<>> /\ Head(s) \in TrimWs THEN TrimStart(Tail(s)) ELSE s

RECURSIVE TrimEnd(_)
TrimEnd(s) ==
    IF s # <<>> /\ s[Len(s)] \in TrimWs THEN TrimEnd(SubSeq(s, 1, Len(s) - 1)) ELSE s

Trim(s) == TrimEnd(TrimStart(s))

(***************************************************************************)
(* JSON values, as JSON.parse builds them.  One record shape for every     *)
(* kind: t is the kind, s the characters of a string (or the name of a     *)
(* literal), m and e a number m * 10^e with m not divisible by 10, keys    *)
(* the own keys of an object in enumeration order, kids the elements of    *)
(* an array or the values of an object's keys.                             *)
(***************************************************************************)
NoValue == [t |-> "none", s |-> <<>>, m |-> 0, e |-> 0, keys |-> <<>>, kids |-> <<>>]

StrV(cs) == [NoValue EXCEPT !.t = "string", !.s = cs]

LitV(name) == [NoValue EXCEPT !.t = "literal", !.s = name]

RECURSIVE NumV(_, _)
NumV(m, e) ==
    IF m = 0 THEN [NoValue EXCEPT !.t = "number"]
    ELSE IF m % 10 = 0 THEN NumV(m \div 10, e + 1)
    ELSE [NoValue EXCEPT !.t = "number", !.m = m, !.e = e]

ArrV(kids) == [NoValue EXCEPT !.t = "array", !.kids = kids]

ObjV(keys, kids) == [NoValue EXCEPT !.t = "object", !.keys = keys, !.kids = kids]

\* The value of the digits s[a..b-1] (0 when there are none).
RECURSIVE DigitsValue(_, _, _)
DigitsValue(s, a, b) ==
    IF a >= b THEN 0 ELSE DigitsValue(s, a, b - 1) * 10 + DigitValue(s[b - 1])

\* A key that is an array index ("0", "7", "12": no sign, no leading zero):
\* a JavaScript object enumerates these first, in ascending numeric order.
IsIndexKey(k) ==
    /\ k # <<>>
    /\ \A j \in 1..Len(k) : k[j] \in Digits
    /\ (Len(k) > 1 => k[1] # "0")
    /\ Len(k) <= 9

IndexOfKey(keys, k) ==
    IF \E j \in 1..Len(keys) : keys[j] = k
    THEN CHOOSE j \in 1..Len(keys) : keys[j] = k
    ELSE 0

InsertAt(seq, pos, x) ==
    SubSeq(seq, 1, pos - 1) \o <<x>> \o SubSeq(seq, pos, Len(seq))

\* Where a new key goes among the own keys: an index key before the first
\* greater index key or the first string key, a string key at the end.
NewKeyPos(keys, k) ==
    IF IsIndexKey(k)
    THEN LET later == {j \in 1..Len(keys) :
                          \/ ~IsIndexKey(keys[j])
                          \/ DigitsValue(keys[j], 1, Len(keys[j]) + 1)
                               > DigitsValue(k, 1, Len(k) + 1)}
         IN  IF later = {} THEN Len(keys) + 1
             ELSE CHOOSE j \in later : \A j2 \in later : j <= j2
    ELSE Len(keys) + 1

\* A slip: a key already present keeps its first value.
ObjPut_firstWins(obj, k, v) ==
    LET at == IndexOfKey(obj.keys, k) IN
    IF at # 0 THEN obj
    ELSE LET pos == NewKeyPos(obj.keys, k) IN
         [obj EXCEPT !.keys = InsertAt(obj.keys, pos, k),
                     !.kids = InsertAt(obj.kids, pos, v)]

\* obj[k] = v: a key already present keeps its place and takes the new value.
ObjPut(obj, k, v) ==
    LET at == IndexOfKey(obj.keys, k) IN
    IF at # 0 THEN [obj EXCEPT !.kids[at] = v]
    ELSE LET pos == NewKeyPos(obj.keys, k) IN
         [obj EXCEPT !.keys = InsertAt(obj.keys, pos, k),
                     !.kids = InsertAt(obj.kids, pos, v)]

(***************************************************************************)
(* JSON.parse: a recursive-descent parser of the JSON grammar.  A parse    *)
(* step answers [ok, next, val]: whether a value starts at the position,   *)
(* the position after it, and the value.                                   *)
(***************************************************************************)
ParseFail == [ok |-> FALSE, next |-> 0, val |-> NoValue]

ParseOk(next, val) == [ok |-> TRUE, next |-> next, val |-> val]

RECURSIVE SkipWs(_, _)
SkipWs(s, i) ==
    IF i <= Len(s) /\ s[i] \in JsonWs THEN SkipWs(s, i + 1) ELSE i

RECURSIVE DigitsEnd(_, _)
DigitsEnd(s, i) ==
    IF i <= Len(s) /\ s[i] \in Digits THEN DigitsEnd(s, i + 1) ELSE i

\* The characters of a string literal after its opening quote.
RECURSIVE ParseStringBody(_, _, _)
ParseStringBody(s, j, acc) ==
    IF j > Len(s) THEN ParseFail
    ELSE IF s[j] = "\"" THEN ParseOk(j + 1, StrV(acc))
    ELSE IF s[j] = "\\" THEN
        IF j + 1 > Len(s) THEN ParseFail
        ELSE IF s[j + 1] \in SimpleEscapes
             THEN ParseStringBody(s, j + 2, Append(acc, Unescape(s[j + 1])))
        ELSE IF /\ s[j + 1] = "u"
                /\ j + 5 <= Len(s)
                /\ \A k \in (j + 2)..(j + 5) : s[k] \in HexDigits
             THEN ParseStringBody(s, j + 6,
                      Append(acc, "\\u" \o s[j + 2] \o s[j + 3] \o s[j + 4] \o s[j + 5]))
        ELSE ParseFail
    ELSE IF s[j] \in {"\n", "\r", "\t", "\f", "<bs>"} THEN ParseFail
    ELSE ParseStringBody(s, j + 1, Append(acc, s[j]))

ParseString(s, i) == ParseStringBody(s, i + 1, <<>>)

\* -? (0 | [1-9][0-9]*) (. [0-9]+)? ([eE] [+-]? [0-9]+)?
ParseNumber(s, i) ==
    LET neg      == s[i] = "-"
        intFrom  == IF neg THEN i + 1 ELSE i
        intTo    == DigitsEnd(s, intFrom)
        intOk    == /\ intTo > intFrom
                    /\ (s[intFrom] = "0" => intTo = intFrom + 1)
        hasFrac  == intTo <= Len(s) /\ s[intTo] = "."
        fracTo   == IF hasFrac THEN DigitsEnd(s, intTo + 1) ELSE intTo
        fracOk   == hasFrac => fracTo > intTo + 1
        fracLen  == IF hasFrac THEN fracTo - (intTo + 1) ELSE 0
        hasExp   == fracTo <= Len(s) /\ s[fracTo] \in {"e", "E"}
        signed   == hasExp /\ fracTo + 1 <= Len(s) /\ s[fracTo + 1] \in {"+", "-"}
        expNeg   == signed /\ s[fracTo + 1] = "-"
        expFrom  == IF signed THEN fracTo + 2 ELSE fracTo + 1
        expTo    == IF hasExp THEN DigitsEnd(s, expFrom) ELSE fracTo
        expOk    == hasExp => expTo > expFrom
        mant     == DigitsValue(s, intFrom, intTo) * (10 ^ fracLen)
                      + (IF hasFrac THEN DigitsValue(s, intTo + 1, fracTo) ELSE 0)
        expAbs   == IF hasExp THEN DigitsValue(s, expFrom, expTo) ELSE 0
        exp      == (IF expNeg THEN 0 - expAbs ELSE expAbs) - fracLen
    IN  IF intOk /\ fracOk /\ expOk
        THEN ParseOk(expTo, NumV(IF neg THEN 0 - mant ELSE mant, exp))
        ELSE ParseFail

StartsWith(s, i, word) ==
    /\ i + Len(word) - 1 <= Len(s)
    /\ \A k \in 1..Len(word) : s[i + k - 1] = word[k]

ParseLiteral(s, i) ==
    IF StartsWith(s, i, <<"t", "r", "u", "e">>) THEN ParseOk(i + 4, LitV(<<"t", "r", "u", "e">>))
    ELSE IF StartsWith(s, i, <<"f", "a", "l", "s", "e">>)
         THEN ParseOk(i + 5, LitV(<<"f", "a", "l", "s", "e">>))
    ELSE IF StartsWith(s, i, <<"n", "u", "l", "l">>) THEN ParseOk(i + 4, LitV(<<"n", "u", "l", "l">>))
    ELSE ParseFail

RECURSIVE ParseValue(_, _)
RECURSIVE ParseElements(_, _, _)
RECURSIVE ParseMembers(_, _, _)

\* The elements of an array, from the first character of an element.
\* (CHOOSE out \in {f(r) : r \in {e}} : TRUE is f(e) with e evaluated once.)
ParseElements(s, j, acc) ==
    CHOOSE out \in
        { LET k == SkipWs(s, r.next) IN
          IF ~r.ok \/ k > Len(s) THEN ParseFail
          ELSE IF s[k] = "," THEN ParseElements(s, SkipWs(s, k + 1), more)
          ELSE IF s[k] = "]" THEN ParseOk(k + 1, ArrV(more))
          ELSE ParseFail
          : <<r, more>> \in {<<r0, Append(acc, r0.val)>> : r0 \in {ParseValue(s, j)}} } : TRUE

\* The members of an object, from the opening quote of a key.
ParseMembers(s, j, obj) ==
    IF j > Len(s) \/ s[j] # "\"" THEN ParseFail
    ELSE CHOOSE out \in
        { LET colon == SkipWs(s, key.next) IN
          IF ~key.ok \/ colon > Len(s) \/ s[colon] # ":" THEN ParseFail
          ELSE CHOOSE out2 \in
              { LET k == SkipWs(s, r.next) IN
                IF ~r.ok \/ k > Len(s) THEN ParseFail
                ELSE CHOOSE out3 \in
                    { IF s[k] = "," THEN ParseMembers(s, SkipWs(s, k + 1), more)
                      ELSE IF s[k] = "}" THEN ParseOk(k + 1, more)
                      ELSE ParseFail
                      : more \in {ObjPut(obj, key.val.s, r.val)} } : TRUE
                : r \in {ParseValue(s, SkipWs(s, colon + 1))} } : TRUE
          : key \in {ParseString(s, j)} } : TRUE

ParseArray(s, i) ==
    LET j == SkipWs(s, i + 1) IN
    IF j <= Len(s) /\ s[j] = "]" THEN ParseOk(j + 1, ArrV(<<>>))
    ELSE ParseElements(s, j, <<>>)

ParseObject(s, i) ==
    LET j == SkipWs(s, i + 1) IN
    IF j <= Len(s) /\ s[j] = "}" THEN ParseOk(j + 1, ObjV(<<>>, <<>>))
    ELSE ParseMembers(s, j, ObjV(<<>>, <<>>))

ParseValue(s, i) ==
    IF i > Len(s) THEN ParseFail
    ELSE IF s[i] = "{" THEN ParseObject(s, i)
    ELSE IF s[i] = "[" THEN ParseArray(s, i)
    ELSE IF s[i] = "\"" THEN ParseString(s, i)
    ELSE IF s[i] \in Digits \cup {"-"} THEN ParseNumber(s, i)
    ELSE IF s[i] \in {"t", "f", "n"} THEN ParseLiteral(s, i)
    ELSE ParseFail

\* JSON.parse(s): [ok, val]; ok is FALSE where JSON.parse throws a SyntaxError.
JSONParse(s) ==
    CHOOSE out \in
        { IF r.ok /\ SkipWs(s, r.next) = Len(s) + 1
          THEN [ok |-> TRUE, val |-> r.val]
          ELSE [ok |-> FALSE, val |-> NoValue]
          : r \in {ParseValue(s, SkipWs(s, 1))} } : TRUE

(***************************************************************************)
(* The texts of the documented examples.                                   *)
(***************************************************************************)
\* {"a": "hello
ExHello ==
    <<"{", "\"", "a", "\"", ":", " ", "\"", "h", "e", "l", "l", "o">>

\* {"a": "hello"}
ExHelloRepaired ==
    <<"{", "\"", "a", "\"", ":", " ", "\"", "h", "e", "l", "l", "o", "\"", "}">>

\* {"a": [1, 2, {"b": 3
ExNested ==
    <<"{", "\"", "a", "\"", ":", " ", "[", "1", ",", " ", "2", ",", " ", "{", "\"", "b", "\"", ":", " ", "3">>

\* {"a": [1, 2, {"b": 3}]}
ExNestedRepaired ==
    <<"{", "\"", "a", "\"", ":", " ", "[", "1", ",", " ", "2", ",", " ", "{", "\"", "b", "\"", ":", " ", "3", "}", "]", "}">>

\* {"a": "she said \"hi
ExEscaped ==
    <<"{", "\"", "a", "\"", ":", " ", "\"", "s", "h", "e", " ", "s", "a", "i", "d", " ", "\\", "\"", "h", "i">>

\* {"a": "she said \"hi"}
ExEscapedClosed ==
    <<"{", "\"", "a", "\"", ":", " ", "\"", "s", "h", "e", " ", "s", "a", "i", "d", " ", "\\", "\"", "h", "i", "\"", "}">>

\* {"a": }
ExUnrecoverable ==
    <<"{", "\"", "a", "\"", ":", " ", "}">>

\* {"b": [true, null], "a": "x"}
ExComplete ==
    <<"{", "\"", "b", "\"", ":", " ", "[", "t", "r", "u", "e", ",", " ", "n", "u", "l", "l", "]", ",", " ", "\"", "a", "\"", ":", " ", "\"", "x", "\"", "}">>

\* {"b":1,"10":2,"a":3,"9":4,"b":5}
ExKeys ==
    <<"{", "\"", "b", "\"", ":", "1", ",", "\"", "1", "0", "\"", ":", "2", ",", "\"", "a", "\"", ":", "3", ",", "\"", "9", "\"", ":", "4", ",", "\"", "b", "\"", ":", "5", "}">>

\* {"b":1,"10":2,"a":3,"9":4,"b":[5,6
ExKeysTruncated ==
    <<"{", "\"", "b", "\"", ":", "1", ",", "\"", "1", "0", "\"", ":", "2", ",", "\"", "a", "\"", ":", "3", ",", "\"", "9", "\"", ":", "4", ",", "\"", "b", "\"", ":", "[", "5", ",", "6">>

\* ["\\"  (a string of two backslashes in an array left open)
ExDoubleBackslash == <<"[", "\"", "\\", "\\", "\"">>

\* {"a": "x\"y"  (five quotes, the string closed, the object left open)
ExOddOutside ==
    <<"{", "\"", "a", "\"", ":", " ", "\"", "x", "\\", "\"", "y", "\"">>

\* ["\""  (three quotes, the string closed, the array left open)
ExOddOutsideArray == <<"[", "\"", "\\", "\"", "\"">>

\* {"sources":["z"],"topic":"x"}
ExSources ==
    <<"{", "\"", "s", "o", "u", "r", "c", "e", "s", "\"", ":", "[", "\"", "z", "\"", "]", ",", "\"", "t", "o", "p", "i", "c", "\"", ":", "\"", "x", "\"", "}">>

\* {"topic":"x","sources":["z"
ExSourcesTruncated ==
    <<"{", "\"", "t", "o", "p", "i", "c", "\"", ":", "\"", "x", "\"", ",", "\"", "s", "o", "u", "r", "c", "e", "s", "\"", ":", "[", "\"", "z", "\"">>

(***************************************************************************)
(* robustParseJSON: the recovery stages as functions of the text.          *)
(***************************************************************************)
MalformedMsg ==
    "AI response was malformed or truncated due to its length. Please try a more specific query or fewer URLs."

\* What a call ends in: a returned value, or a thrown error (its class and message).
NoOutcome == [kind |-> "none", val |-> NoValue, error |-> "", msg |-> ""]

Returned(v) == [kind |-> "value", val |-> v, error |-> "", msg |-> ""]

Thrown(class, msg) == [kind |-> "error", val |-> NoValue, error |-> class, msg |-> msg]

\* (fixedText.match(/"/g) || []).length
quoteCount(s) == Cardinality({j \in 1..Len(s) : s[j] = "\""})

\* The scan's locals before the loop.
ScanInit == [stack |-> <<>>, inString |-> FALSE, escaped |-> FALSE]

\* A slip: a closer pops whatever is on top of the stack.
ScanChar_popsAnyCloser(st, char) ==
    LET nowIn == IF char = "\"" /\ ~st.escaped THEN ~st.inString ELSE st.inString IN
    IF nowIn
    THEN [st EXCEPT !.inString = nowIn, !.escaped = (char = "\\" /\ ~st.escaped)]
    ELSE IF char = "{" THEN [st EXCEPT !.inString = nowIn, !.stack = Append(st.stack, "}")]
    ELSE IF char = "[" THEN [st EXCEPT !.inString = nowIn, !.stack = Append(st.stack, "]")]
    ELSE IF char \in {"}", "]"} /\ Len(st.stack) > 0
         THEN [st EXCEPT !.inString = nowIn,
                         !.stack = SubSeq(st.stack, 1, Len(st.stack) - 1)]
    ELSE [st EXCEPT !.inString = nowIn]

\* A slip: escaped = char === '\\', without && !escaped.
ScanChar_stickyEscape(st, char) ==
    LET nowIn == IF char = "\"" /\ ~st.escaped THEN ~st.inString ELSE st.inString IN
    IF nowIn
    THEN [st EXCEPT !.inString = nowIn, !.escaped = (char = "\\")]
    ELSE IF char = "{" THEN [st EXCEPT !.inString = nowIn, !.stack = Append(st.stack, "}")]
    ELSE IF char = "[" THEN [st EXCEPT !.inString = nowIn, !.stack = Append(st.stack, "]")]
    ELSE IF /\ char \in {"}", "]"}
            /\ Len(st.stack) > 0
            /\ st.stack[Len(st.stack)] = char
         THEN [st EXCEPT !.inString = nowIn,
                         !.stack = SubSeq(st.stack, 1, Len(st.stack) - 1)]
    ELSE [st EXCEPT !.inString = nowIn]

\* A slip: the opener itself is pushed instead of its closer.
ScanChar_pushesOpener(st, char) ==
    LET nowIn == IF char = "\"" /\ ~st.escaped THEN ~st.inString ELSE st.inString IN
    IF nowIn
    THEN [st EXCEPT !.inString = nowIn, !.escaped = (char = "\\" /\ ~st.escaped)]
    ELSE IF char \in {"{", "["}
         THEN [st EXCEPT !.inString = nowIn, !.stack = Append(st.stack, char)]
    ELSE IF /\ char \in {"}", "]"}
            /\ Len(st.stack) > 0
            /\ st.stack[Len(st.stack)] = char
         THEN [st EXCEPT !.inString = nowIn,
                         !.stack = SubSeq(st.stack, 1, Len(st.stack) - 1)]
    ELSE [st EXCEPT !.inString = nowIn]

\* A slip: no `continue` inside a string, so brackets there count too.
ScanChar_ignoresStrings(st, char) ==
    LET nowIn == IF char = "\"" /\ ~st.escaped THEN ~st.inString ELSE st.inString
        flags == [st EXCEPT !.inString = nowIn,
                            !.escaped = IF nowIn THEN char = "\\" /\ ~st.escaped
                                        ELSE st.escaped]
    IN  IF char = "{" THEN [flags EXCEPT !.stack = Append(st.stack, "}")]
        ELSE IF char = "[" THEN [flags EXCEPT !.stack = Append(st.stack, "]")]
        ELSE IF /\ char \in {"}", "]"}
                /\ Len(st.stack) > 0
                /\ st.stack[Len(st.stack)] = char
             THEN [flags EXCEPT !.stack = SubSeq(st.stack, 1, Len(st.stack) - 1)]
        ELSE flags

\* One iteration of the scan loop on the character char.
ScanChar(st, char) ==
    LET nowIn == IF char = "\"" /\ ~st.escaped THEN ~st.inString ELSE st.inString IN
    IF nowIn
    THEN [st EXCEPT !.inString = nowIn, !.escaped = (char = "\\" /\ ~st.escaped)]
    ELSE IF char = "{" THEN [st EXCEPT !.inString = nowIn, !.stack = Append(st.stack, "}")]
    ELSE IF char = "[" THEN [st EXCEPT !.inString = nowIn, !.stack = Append(st.stack, "]")]
    ELSE IF /\ char \in {"}", "]"}
            /\ Len(st.stack) > 0
            /\ st.stack[Len(st.stack)] = char
         THEN [st EXCEPT !.inString = nowIn,
                         !.stack = SubSeq(st.stack, 1, Len(st.stack) - 1)]
    ELSE [st EXCEPT !.inString = nowIn]

\* The scan loop from character i on.
RECURSIVE ScanFrom(_, _, _)
ScanFrom(s, i, st) ==
    IF i > Len(s) THEN st
    ELSE CHOOSE out \in {ScanFrom(s, i + 1, next) : next \in {ScanChar(st, s[i])}} : TRUE

\* while (stack.length > 0) fixedText += stack.pop(): the closers in pop order.
RECURSIVE PopAll(_)
PopAll(stack) ==
    IF Len(stack) = 0 THEN <<>>
    ELSE <<stack[Len(stack)]>> \o PopAll(SubSeq(stack, 1, Len(stack) - 1))

\* A slip: === 0 for !== 0.
QuotePatched_even(s) ==
    IF quoteCount(s) % 2 = 0 THEN Append(s, "\"") ELSE s

\* A slip: the quote is appended only when a scan of the text ends inside a string.
QuotePatched_guarded(s) ==
    IF quoteCount(s) % 2 # 0 /\ ScanFrom(s, 1, ScanInit).inString
    THEN Append(s, "\"") ELSE s

\* Recovery Step 1: one quote more when the number of quotes is odd.
QuotePatched(s) ==
    IF quoteCount(s) % 2 # 0 THEN Append(s, "\"") ELSE s

\* fixedText as handed to the final JSON.parse.
Repaired(trimmed) ==
    LET patched == QuotePatched(trimmed) IN
    patched \o PopAll(ScanFrom(patched, 1, ScanInit).stack)

\* robustParseJSON(text) as a function: the outcome of the call.
RobustParseJSON(t) ==
    CHOOSE out \in
        { IF direct.ok THEN Returned(direct.val)
          ELSE CHOOSE out2 \in
              { IF final.ok THEN Returned(final.val) ELSE Thrown("Error", MalformedMsg)
                : final \in {JSONParse(Repaired(Trim(t)))} } : TRUE
          : direct \in {JSONParse(Trim(t))} } : TRUE

(***************************************************************************)
(* Bounds and inputs                                                       *)
(***************************************************************************)
\* The longest text of the exhaustive part of the inputs.
MaxLen == 3

\* The characters of the exhaustively enumerated texts.
EnumChars == {"{", "}", "[", "]", "\"", "\\", "1", " "}

EnumTexts == UNION {[1..n -> EnumChars] : n \in 0..MaxLen}

Examples ==
    {ExHello, ExNested, ExEscaped, ExUnrecoverable, ExComplete, ExHelloRepaired,
     ExKeys, ExKeysTruncated, ExDoubleBackslash, ExOddOutside, ExOddOutsideArray}

Inputs == EnumTexts \cup Examples

\* The whitespace put around a text for its second call.
Paddings == {<<>>, <<" ">>, <<"\n", NBSP>>}

\* The most calls of robustParseJSON one run of a series of calls makes.
MaxCalls == 3

\* "\ : a text that leaves the scan inside a string.
ExOpenEscape == <<"\"", "\\">>

\* [{ : a text that leaves two closers on the stack.
ExOpenBrackets == <<"[", "{">>

\* The texts of a series of calls.
CallInputs ==
    {ExHello, ExNested, ExEscaped, ExUnrecoverable, ExComplete,
     ExOpenEscape, ExOpenBrackets}

(***************************************************************************)
(* State                                                                   *)
(***************************************************************************)
VARIABLES
    \* one call of robustParseJSON, step by step
    text,        \* the argument
    pc,          \* the stage the call is at
    trimmed,     \* const trimmed
    fixedText,   \* let fixedText
    stack,       \* const stack: string[]
    inString,    \* let inString
    escaped,     \* let escaped
    i,           \* the scan's index, counted from 1 (0: the loop has not begun)
    outcome,     \* what the call ended in
    parseCalls,  \* how many times the call has run JSON.parse
    quoteCounts, \* how many times the call has counted the quotes
    scanStack,   \* the stack as the scan loop left it
    pushes,      \* how many closers the scan has pushed on the stack
    calls,       \* the calls completed before this one: [text, outcome]
    \* the App component
    query,         \* useState('')
    cancelRef,     \* useRef<boolean>(false)
    isSearching,   \* state.isSearching
    result,        \* state.result
    error,         \* state.error
    searchHistory, \* state.searchHistory
    requests,      \* the analyzeTopic calls started, in order
    caught,        \* the error the catch block of handleSearch last handled
    clickPending,  \* useHistoryItem's timer has not fired yet
    refused,       \* the last call of handleSearch returned at one of its guards
    \* one call of analyzeTopic, step by step
    response,      \* the answer of ai.models.generateContent
    apc,           \* the statement the call is at
    parsed,        \* const parsed
    sources,       \* const sources
    analysis,      \* what the call ended in
    \* AnalysisView
    searchTerm,        \* the text of the filter box
    selectedTags,      \* the tags toggled on, in the order they were toggled
    selectedCreators   \* the creators toggled on, in the order they were toggled

parserVars ==
    <<text, pc, trimmed, fixedText, stack, inString, escaped, i, outcome,
      parseCalls, quoteCounts, scanStack, pushes, calls>>

appVars ==
    <<query, cancelRef, isSearching, result, error, searchHistory, requests,
      caught, clickPending, refused>>

serviceVars == <<response, apc, parsed, sources, analysis>>

filterVars == <<searchTerm, selectedTags, selectedCreators>>

vars == <<parserVars, appVars, serviceVars, filterVars>>

(***************************************************************************)
(* robustParseJSON, one stage or one loop iteration per step               *)
(***************************************************************************)
\* The locals of a call that has not run yet.
FreshCall(t) ==
    /\ text = t
    /\ pc = "direct"
    /\ trimmed = <<>>
    /\ fixedText = <<>>
    /\ stack = <<>>
    /\ inString = FALSE
    /\ escaped = FALSE
    /\ i = 0
    /\ outcome = NoOutcome
    /\ parseCalls = 0
    /\ quoteCounts = 0
    /\ scanStack = <<>>
    /\ pushes = 0

\* The first stage with tr for trimmed, direct for what JSON.parse answered and
\* fixed for the text the recovery starts from.
DirectAttemptOn(tr, direct, fixed) ==
    /\ pc = "direct"
    /\ trimmed' = tr
    /\ parseCalls' = parseCalls + 1
    /\ IF direct.ok
       THEN /\ pc' = "returned"
            /\ outcome' = Returned(direct.val)
            /\ UNCHANGED fixedText
       ELSE /\ pc' = "quote"
            /\ fixedText' = fixed
            /\ UNCHANGED outcome
    /\ UNCHANGED <<text, stack, inString, escaped, i, quoteCounts, scanStack,
                   pushes, calls>>
    /\ UNCHANGED <<appVars, serviceVars, filterVars>>

\* A slip: the text is never trimmed.
DirectAttempt_untrimmed == DirectAttemptOn(text, JSONParse(text), text)

\* A slip: a direct parse that succeeds does not return.
DirectAttempt_noReturn ==
    DirectAttemptOn(Trim(text), [ok |-> FALSE, val |-> NoValue], Trim(text))

\* A slip: the recovery starts from text instead of trimmed.
DirectAttempt_repairsUntrimmed ==
    DirectAttemptOn(Trim(text), JSONParse(Trim(text)), text)

\* const trimmed = text.trim(); try { return JSON.parse(trimmed) } catch { fixedText = trimmed }
DirectAttempt ==
    DirectAttemptOn(Trim(text), JSONParse(Trim(text)), Trim(text))

\* A slip: stack, inString and escaped are declared outside the function and
\* keep what the last call left in them.
QuotePatch_keepsScanState ==
    /\ pc = "quote"
    /\ quoteCounts' = quoteCounts + 1
    /\ fixedText' = QuotePatched(fixedText)
    /\ i' = 1
    /\ pc' = "scan"
    /\ UNCHANGED <<text, trimmed, stack, inString, escaped, outcome, parseCalls,
                   scanStack, pushes, calls>>
    /\ UNCHANGED <<appVars, serviceVars, filterVars>>

\* Recovery Step 1, and the declaration of the scan's locals.
QuotePatch ==
    /\ pc = "quote"
    /\ quoteCounts' = quoteCounts + 1
    /\ fixedText' = QuotePatched(fixedText)
    /\ stack' = ScanInit.stack
    /\ inString' = ScanInit.inString
    /\ escaped' = ScanInit.escaped
    /\ i' = 1
    /\ pc' = "scan"
    /\ UNCHANGED <<text, trimmed, outcome, parseCalls, scanStack, pushes, calls>>
    /\ UNCHANGED <<appVars, serviceVars, filterVars>>

\* One iteration of for (let i = 0; i < fixedText.length; i++).
ScanStep ==
    /\ pc = "scan"
    /\ i <= Len(fixedText)
    /\ LET st == ScanChar([stack |-> stack, inString |-> inString, escaped |-> escaped],
                          fixedText[i])
       IN  /\ stack' = st.stack
           /\ inString' = st.inString
           /\ escaped' = st.escaped
           /\ pushes' = IF Len(st.stack) > Len(stack) THEN pushes + 1 ELSE pushes
    /\ i' = i + 1
    /\ UNCHANGED <<text, pc, trimmed, fixedText, outcome, parseCalls, quoteCounts,
                   scanStack, calls>>
    /\ UNCHANGED <<appVars, serviceVars, filterVars>>

\* The loop condition fails: the scan is over.
ScanExit ==
    /\ pc = "scan"
    /\ i > Len(fixedText)
    /\ scanStack' = stack
    /\ pc' = "close"
    /\ UNCHANGED <<text, trimmed, fixedText, stack, inString, escaped, i, outcome,
                   parseCalls, quoteCounts, pushes, calls>>
    /\ UNCHANGED <<appVars, serviceVars, filterVars>>

\* A slip: fixedText = stack.pop() instead of +=.
CloseStep_assigns ==
    /\ pc = "close"
    /\ Len(stack) > 0
    /\ fixedText' = <<stack[Len(stack)]>>
    /\ stack' = SubSeq(stack, 1, Len(stack) - 1)
    /\ UNCHANGED <<text, pc, trimmed, inString, escaped, i, outcome, parseCalls,
                   quoteCounts, scanStack, pushes, calls>>
    /\ UNCHANGED <<appVars, serviceVars, filterVars>>

\* A slip: stack.shift() instead of stack.pop().
CloseStep_shifts ==
    /\ pc = "close"
    /\ Len(stack) > 0
    /\ fixedText' = Append(fixedText, stack[1])
    /\ stack' = Tail(stack)
    /\ UNCHANGED <<text, pc, trimmed, inString, escaped, i, outcome, parseCalls,
                   quoteCounts, scanStack, pushes, calls>>
    /\ UNCHANGED <<appVars, serviceVars, filterVars>>

\* A slip: the top of the stack is read and not popped.
CloseStep_peeks ==
    /\ pc = "close"
    /\ Len(stack) > 0
    /\ fixedText' = Append(fixedText, stack[Len(stack)])
    /\ UNCHANGED <<text, pc, trimmed, stack, inString, escaped, i, outcome, parseCalls,
                   quoteCounts, scanStack, pushes, calls>>
    /\ UNCHANGED <<appVars, serviceVars, filterVars>>

\* One iteration of while (stack.length > 0) fixedText += stack.pop().
CloseStep ==
    /\ pc = "close"
    /\ Len(stack) > 0
    /\ fixedText' = Append(fixedText, stack[Len(stack)])
    /\ stack' = SubSeq(stack, 1, Len(stack) - 1)
    /\ UNCHANGED <<text, pc, trimmed, inString, escaped, i, outcome, parseCalls,
                   quoteCounts, scanStack, pushes, calls>>
    /\ UNCHANGED <<appVars, serviceVars, filterVars>>

\* The final stage, throwing failure when JSON.parse throws.
FinalAttemptThrowing(failure) ==
    /\ pc = "close"
    /\ Len(stack) = 0
    /\ parseCalls' = parseCalls + 1
    /\ LET final == JSONParse(fixedText) IN
       IF final.ok
       THEN /\ pc' = "returned"
            /\ outcome' = Returned(final.val)
       ELSE /\ pc' = "thrown"
            /\ outcome' = failure
    /\ UNCHANGED <<text, trimmed, fixedText, stack, inString, escaped, i,
                   quoteCounts, scanStack, pushes, calls>>
    /\ UNCHANGED <<appVars, serviceVars, filterVars>>

\* A slip: the catch rethrows finalError.
FinalAttempt_rethrows ==
    FinalAttemptThrowing(Thrown("SyntaxError", "Unexpected end of JSON input"))

\* A slip: a recovered value that is not an object is refused.
FinalAttempt_requiresObject ==
    /\ pc = "close"
    /\ Len(stack) = 0
    /\ parseCalls' = parseCalls + 1
    /\ LET final == JSONParse(fixedText) IN
       IF final.ok /\ final.val.t = "object"
       THEN /\ pc' = "returned"
            /\ outcome' = Returned(final.val)
       ELSE /\ pc' = "thrown"
            /\ outcome' = Thrown("Error", MalformedMsg)
    /\ UNCHANGED <<text, trimmed, fixedText, stack, inString, escaped, i,
                   quoteCounts, scanStack, pushes, calls>>
    /\ UNCHANGED <<appVars, serviceVars, filterVars>>

\* try { return JSON.parse(fixedText) } catch { throw new Error(...) }
FinalAttempt == FinalAttemptThrowing(Thrown("Error", MalformedMsg))

\* The call is over; the caller calls again, on the same text inside whitespace.
NextCall ==
    /\ pc \in {"returned", "thrown"}
    /\ calls = <<>>
    /\ \E lead \in Paddings, trail \in Paddings :
          text' = lead \o text \o trail
    /\ calls' = Append(calls, [text |-> text, outcome |-> outcome])
    /\ pc' = "direct"
    /\ trimmed' = <<>>
    /\ fixedText' = <<>>
    /\ stack' = <<>>
    /\ inString' = FALSE
    /\ escaped' = FALSE
    /\ i' = 0
    /\ outcome' = NoOutcome
    /\ parseCalls' = 0
    /\ quoteCounts' = 0
    /\ scanStack' = <<>>
    /\ pushes' = 0
    /\ UNCHANGED <<appVars, serviceVars, filterVars>>

\* The call is over; the program calls robustParseJSON again, on any text.  The
\* function is synchronous, so calls follow one another and never overlap.  The
\* locals are left as the finished call left them: a call reads none of them
\* before its own code has assigned it.
CallAgain ==
    /\ pc \in {"returned", "thrown"}
    /\ Len(calls) + 1 < MaxCalls
    /\ \E t \in CallInputs : text' = t
    /\ calls' = Append(calls, [text |-> text, outcome |-> outcome])
    /\ pc' = "direct"
    /\ outcome' = NoOutcome
    /\ parseCalls' = 0
    /\ quoteCounts' = 0
    /\ pushes' = 0
    /\ UNCHANGED <<trimmed, fixedText, stack, inString, escaped, i, scanStack>>
    /\ UNCHANGED <<appVars, serviceVars, filterVars>>

(***************************************************************************)
(* analyzeTopic: from the generation service's answer to the result         *)
(***************************************************************************)
EmptyReportMsg == "The research agent returned an empty report."

SourcesKey == <<"s", "o", "u", "r", "c", "e", "s">>

UriKey == <<"u", "r", "i">>

TitleKey == <<"t", "i", "t", "l", "e">>

\* chunk.web?.title || 'Research Source'
DefaultTitle ==
    <<"R", "e", "s", "e", "a", "r", "c", "h", " ", "S", "o", "u", "r", "c", "e">>

\* The decimal digits of n: the key of an array's or a string's element n.
RECURSIVE IndexKey(_)
IndexKey(n) ==
    LET d == CHOOSE c \in Digits : DigitValue(c) = n % 10 IN
    IF n < 10 THEN <<d>> ELSE Append(IndexKey(n \div 10), d)

\* obj with keys[j] = kids[j] put for every j from `from` on.
RECURSIVE PutAll(_, _, _, _)
PutAll(obj, keys, kids, from) ==
    IF from > Len(keys) THEN obj
    ELSE CHOOSE out \in
        { PutAll(more, keys, kids, from + 1)
          : more \in {ObjPut(obj, keys[from], kids[from])} } : TRUE

\* The own enumerable properties the spread {...v} copies, in order.
SpreadOf(v) ==
    IF v.t = "object" THEN PutAll(ObjV(<<>>, <<>>), v.keys, v.kids, 1)
    ELSE IF v.t = "array"
         THEN PutAll(ObjV(<<>>, <<>>),
                     [j \in 1..Len(v.kids) |-> IndexKey(j - 1)], v.kids, 1)
    ELSE IF v.t = "string"
         THEN PutAll(ObjV(<<>>, <<>>),
                     [j \in 1..Len(v.s) |-> IndexKey(j - 1)],
                     [j \in 1..Len(v.s) |-> StrV(<<v.s[j]>>)], 1)
    ELSE ObjV(<<>>, <<>>)

\* chunk => ({uri: chunk.web?.uri || '', title: chunk.web?.title || 'Research Source'})
SourceOf(chunk) ==
    ObjPut(ObjPut(ObjV(<<>>, <<>>), UriKey, StrV(chunk.uri)),
           TitleKey, StrV(IF chunk.title = <<>> THEN DefaultTitle ELSE chunk.title))

\* groundingChunks?.map(...).filter(s => s.uri) || []
RECURSIVE SourcesOf(_)
SourcesOf(chunks) ==
    IF chunks = <<>> THEN <<>>
    ELSE (IF Head(chunks).uri = <<>> THEN <<>> ELSE <<SourceOf(Head(chunks))>>)
           \o SourcesOf(Tail(chunks))

\* An answer of ai.models.generateContent: rejected, or a response with its
\* text and its grounding chunks (none when there is no grounding metadata).
\* A uri or title of <<>> is one that is missing or empty.
\* grounded: the first candidate has grounding metadata with groundingChunks.
Rejected == [rejected |-> TRUE, text |-> <<>>, grounded |-> FALSE, chunks |-> <<>>]

Response(t, chunks) ==
    [rejected |-> FALSE, text |-> t, grounded |-> TRUE, chunks |-> chunks]

Ungrounded(t) ==
    [rejected |-> FALSE, text |-> t, grounded |-> FALSE, chunks |-> <<>>]

\* response.candidates?.[0]?.groundingMetadata?.groundingChunks?.map(...).filter(...) || []
GroundedSources(resp) ==
    IF resp.grounded THEN SourcesOf(resp.chunks) ELSE <<>>

\* A slip: { sources, ...parsed }, the spread after the sources.
AnalysisResultOf_bodyWins(val, srcs) ==
    PutAll(ObjPut(ObjV(<<>>, <<>>), SourcesKey, ArrV(srcs)),
           SpreadOf(val).keys, SpreadOf(val).kids, 1)

\* return { ...parsed, sources }
AnalysisResultOf(val, srcs) ==
    ObjPut(SpreadOf(val), SourcesKey, ArrV(srcs))

\* The outcome of analyzeTopic on the answer resp.
AnalyzeTopic(resp) ==
    IF resp.rejected THEN Thrown("ApiError", "generateContent failed")
    ELSE IF resp.text = <<>> THEN Thrown("Error", EmptyReportMsg)
    ELSE CHOOSE out \in
        { IF report.kind = "error" THEN report
          ELSE Returned(AnalysisResultOf(report.val, GroundedSources(resp)))
          : report \in {RobustParseJSON(resp.text)} } : TRUE

SampleChunks ==
    << [uri |-> <<"u">>, title |-> <<>>],
       [uri |-> <<>>, title |-> <<"t">>] >>

\* The answers a request of the model may get.
Responses ==
    { Rejected,
      Response(<<>>, <<>>),
      Response(ExComplete, SampleChunks),
      Response(ExNested, <<>>),
      Response(ExUnrecoverable, SampleChunks) }

\* The most grounding chunks of a response.
MaxChunks == 2

\* A grounding chunk: the uri and title of chunk.web, <<>> when missing or empty.
Chunks ==
    { [uri |-> <<"u">>, title |-> <<"t">>],
      [uri |-> <<"v">>, title |-> <<>>],
      [uri |-> <<>>, title |-> <<"t">>] }

ChunkLists == UNION {[1..n -> Chunks] : n \in 0..MaxChunks}

\* The report texts of the answers analyzeTopic is followed on.
ReportTexts ==
    {<<>>, ExComplete, ExNested, ExUnrecoverable, ExSources, ExSourcesTruncated,
     <<"[", "1", "]">>, <<"n", "u", "l", "l">>}

AnalyzeInputs ==
    {Rejected}
      \cup {Ungrounded(t) : t \in ReportTexts}
      \cup {Response(t, chunks) : t \in ReportTexts, chunks \in ChunkLists}

\* No call of analyzeTopic is being followed.
NoAnalysis ==
    /\ response = Rejected
    /\ apc = "idle"
    /\ parsed = NoValue
    /\ sources = <<>>
    /\ analysis = NoOutcome

\* const response = await ai.models.generateContent(...): the promise settles.
ModelAnswers ==
    /\ apc = "await"
    /\ IF response.rejected
       THEN /\ apc' = "thrown"
            /\ analysis' = Thrown("ApiError", "generateContent failed")
       ELSE /\ apc' = "check"
            /\ UNCHANGED analysis
    /\ UNCHANGED <<response, parsed, sources>>
    /\ UNCHANGED <<parserVars, appVars, filterVars>>

\* const rawText = response.text; if (!rawText) throw new Error(...)
CheckReport ==
    /\ apc = "check"
    /\ IF response.text = <<>>
       THEN /\ apc' = "thrown"
            /\ analysis' = Thrown("Error", EmptyReportMsg)
       ELSE /\ apc' = "parse"
            /\ UNCHANGED analysis
    /\ UNCHANGED <<response, parsed, sources>>
    /\ UNCHANGED <<parserVars, appVars, filterVars>>

\* const parsed = robustParseJSON(rawText): its error goes on to the caller.
ParseReport ==
    /\ apc = "parse"
    /\ \E report \in {RobustParseJSON(response.text)} :
          IF report.kind = "error"
          THEN /\ apc' = "thrown"
               /\ analysis' = report
               /\ UNCHANGED parsed
          ELSE /\ apc' = "sources"
               /\ parsed' = report.val
               /\ UNCHANGED analysis
    /\ UNCHANGED <<response, sources>>
    /\ UNCHANGED <<parserVars, appVars, filterVars>>

\* const sources = ...groundingChunks?.map(...).filter(s => s.uri) || []
CollectSources ==
    /\ apc = "sources"
    /\ sources' = GroundedSources(response)
    /\ apc' = "return"
    /\ UNCHANGED <<response, parsed, analysis>>
    /\ UNCHANGED <<parserVars, appVars, filterVars>>

\* return { ...parsed, sources }
ReturnResult ==
    /\ apc = "return"
    /\ analysis' = Returned(AnalysisResultOf(parsed, sources))
    /\ apc' = "returned"
    /\ UNCHANGED <<response, parsed, sources>>
    /\ UNCHANGED <<parserVars, appVars, filterVars>>

(***************************************************************************)
(* The App component                                                       *)
(***************************************************************************)
GenericMsg ==
    "Failed to perform analysis. Ensure valid YouTube links, a valid handle (@username), or a specific enough topic query."

\* state.error === null
NoError == ""

\* state.result === null
NoResult == NoValue

\* A query is the sequence of its comma-separated parts, each trimmed
\* (query.split(',').map(p => p.trim())); "" is <<"">>.
Queries ==
    { <<"">>,
      <<"react hooks">>,
      <<"@creator">>,
      <<"https://youtu.be/x", "youtube.com">> }

\* YT_URL_REGEX.test(p), on the parts of the model's queries
YT_URL_REGEX(p) == p \in {"https://youtu.be/x"}

\* YT_HANDLE_REGEX.test(p)
YT_HANDLE_REGEX(p) == p \in {"@creator"}

\* p.includes('youtube.com') || p.includes('youtu.be')
MentionsYouTube(p) == p \in {"https://youtu.be/x", "youtube.com"}

\* !query.trim()
IsBlank(q) == q = <<"">>

IsNonEmptyPart(p) == p # ""

\* const parsedAnalysisInput = useMemo(...)
parsedAnalysisInput(q) ==
    LET rawParts == SelectSeq(q, IsNonEmptyPart)
        isUrlMode == \E j \in 1..Len(rawParts) :
                        YT_URL_REGEX(rawParts[j]) \/ MentionsYouTube(rawParts[j])
        validated == [j \in 1..Len(rawParts) |->
                        [text |-> rawParts[j], isValid |-> YT_URL_REGEX(rawParts[j])]]
    IN  IF IsBlank(q) THEN [type |-> "none", items |-> <<>>, allValid |-> TRUE]
        ELSE IF isUrlMode
             THEN [type |-> "url", items |-> validated,
                   allValid |-> \A j \in 1..Len(validated) : validated[j].isValid]
        ELSE IF Len(rawParts) = 1 /\ YT_HANDLE_REGEX(rawParts[1])
             THEN [type |-> "username",
                   items |-> <<[text |-> rawParts[1], isValid |-> TRUE]>>,
                   allValid |-> TRUE]
        ELSE [type |-> "topic", items |-> <<[text |-> q, isValid |-> TRUE]>>,
              allValid |-> TRUE]

\* The most searches one run of the model starts.
MaxSearches == 3

\* .slice(0, 9)
HistoryTail == 9

Take(seq, n) == SubSeq(seq, 1, IF Len(seq) < n THEN Len(seq) ELSE n)

\* A slip: the query is put in front without removing its earlier copy.
NewHistory_keepsCopy(history, q) ==
    <<q>> \o Take(history, HistoryTail)

\* [query, ...prev.searchHistory.filter(h => h !== query).slice(0, 9)]
NewHistory(history, q) ==
    LET IsOther(h) == h # q IN
    <<q>> \o Take(SelectSeq(history, IsOther), HistoryTail)

\* The submit button is enabled.
ButtonEnabled ==
    /\ ~isSearching
    /\ parsedAnalysisInput(query).allValid
    /\ ~IsBlank(query)

\* The error panel, with its Retry Session button, is what the view shows.
RetryShown == ~isSearching /\ error # NoError

\* What the main panel renders: the branches are tried in this order.
View ==
    IF isSearching THEN "loading"
    ELSE IF error # NoError THEN "error"
    ELSE IF result # NoResult THEN "result"
    ELSE "ready"

\* A slip: a new search leaves the previous error in place.
handleSearch_keepsError ==
    IF IsBlank(query) \/ ~parsedAnalysisInput(query).allValid
    THEN /\ refused' = TRUE
         /\ UNCHANGED <<cancelRef, isSearching, result, error, searchHistory,
                        requests, caught>>
    ELSE /\ refused' = FALSE
         /\ cancelRef' = FALSE
         /\ isSearching' = TRUE
         /\ searchHistory' = NewHistory(searchHistory, query)
         /\ requests' = Append(requests, [status |-> "pending", stopped |-> FALSE])
         /\ UNCHANGED <<result, error, caught>>

\* A slip: the cancel flag is reset before the guards.
handleSearch_resetsFlagFirst ==
    /\ cancelRef' = FALSE
    /\ IF IsBlank(query) \/ ~parsedAnalysisInput(query).allValid
       THEN /\ refused' = TRUE
            /\ UNCHANGED <<isSearching, result, error, searchHistory, requests, caught>>
       ELSE /\ refused' = FALSE
            /\ isSearching' = TRUE
            /\ error' = NoError
            /\ searchHistory' = NewHistory(searchHistory, query)
            /\ requests' = Append(requests, [status |-> "pending", stopped |-> FALSE])
            /\ UNCHANGED <<result, caught>>

\* handleSearch up to the await of analyzeTopic.
handleSearch ==
    IF IsBlank(query) \/ ~parsedAnalysisInput(query).allValid
    THEN /\ refused' = TRUE
         /\ UNCHANGED <<cancelRef, isSearching, result, error, searchHistory,
                        requests, caught>>
    ELSE /\ refused' = FALSE
         /\ cancelRef' = FALSE
         /\ isSearching' = TRUE
         /\ error' = NoError
         /\ searchHistory' = NewHistory(searchHistory, query)
         /\ requests' = Append(requests, [status |-> "pending", stopped |-> FALSE])
         /\ UNCHANGED <<result, caught>>

\* onChange={(e) => setQuery(e.target.value)}
SetQuery ==
    /\ \E q \in Queries : q # query /\ query' = q
    /\ UNCHANGED <<cancelRef, isSearching, result, error, searchHistory, requests,
                   caught, clickPending, refused>>
    /\ UNCHANGED <<parserVars, serviceVars, filterVars>>

\* The form is submitted with the submit button enabled.
SubmitForm ==
    /\ ButtonEnabled
    /\ Len(requests) < MaxSearches
    /\ handleSearch
    /\ UNCHANGED <<query, clickPending>>
    /\ UNCHANGED <<parserVars, serviceVars, filterVars>>

\* onClick={() => handleSearch()} of Retry Session.
RetrySession ==
    /\ RetryShown
    /\ Len(requests) < MaxSearches
    /\ handleSearch
    /\ UNCHANGED <<query, clickPending>>
    /\ UNCHANGED <<parserVars, serviceVars, filterVars>>

\* useHistoryItem(item): setQuery(item), and a click on the submit button 50 ms later.
UseHistoryItem ==
    /\ ~clickPending
    /\ \E j \in 1..Len(searchHistory) : query' = searchHistory[j]
    /\ clickPending' = TRUE
    /\ UNCHANGED <<cancelRef, isSearching, result, error, searchHistory, requests,
                   caught, refused>>
    /\ UNCHANGED <<parserVars, serviceVars, filterVars>>

\* The timer of useHistoryItem fires: btn?.click(), which a disabled button ignores.
TimerClick ==
    /\ clickPending
    /\ clickPending' = FALSE
    /\ IF ButtonEnabled /\ Len(requests) < MaxSearches
       THEN handleSearch
       ELSE UNCHANGED <<cancelRef, isSearching, result, error, searchHistory,
                        requests, caught, refused>>
    /\ UNCHANGED query
    /\ UNCHANGED <<parserVars, serviceVars, filterVars>>

\* A slip: Stop raises the cancel flag and leaves the loading view up.
handleStop_flagOnly ==
    /\ isSearching
    /\ ~cancelRef
    /\ cancelRef' = TRUE
    /\ requests' = [requests EXCEPT ![Len(requests)].stopped = TRUE]
    /\ UNCHANGED <<query, isSearching, result, error, searchHistory, caught,
                   clickPending, refused>>
    /\ UNCHANGED <<parserVars, serviceVars, filterVars>>

\* A slip: Stop aborts the request (an AbortController), which then never resolves.
handleStop_aborts ==
    /\ isSearching
    /\ cancelRef' = TRUE
    /\ isSearching' = FALSE
    /\ requests' = [requests EXCEPT ![Len(requests)].stopped = TRUE,
                                    ![Len(requests)].status = "aborted"]
    /\ UNCHANGED <<query, result, error, searchHistory, caught, clickPending, refused>>
    /\ UNCHANGED <<parserVars, serviceVars, filterVars>>

\* handleStop, from either Stop button (both are rendered only while searching).
\* stopped marks the search the button was pressed for.
handleStop ==
    /\ isSearching
    /\ cancelRef' = TRUE
    /\ isSearching' = FALSE
    /\ requests' = [requests EXCEPT ![Len(requests)].stopped = TRUE]
    /\ UNCHANGED <<query, result, error, searchHistory, caught, clickPending, refused>>
    /\ UNCHANGED <<parserVars, serviceVars, filterVars>>

\* What analyzeTopic makes of each answer.
Settlements == {[resp |-> resp, out |-> AnalyzeTopic(resp)] : resp \in Responses}

\* A slip: a failure also drops the result of the last successful search.
Settle_failureClearsResult(r, out) ==
    /\ requests[r].status = "pending"
    /\ IF out.kind = "value"
       THEN IF cancelRef
            THEN /\ requests' = [requests EXCEPT ![r].status = "discarded"]
                 /\ UNCHANGED <<isSearching, result, error, caught>>
            ELSE /\ requests' = [requests EXCEPT ![r].status = "applied"]
                 /\ isSearching' = FALSE
                 /\ result' = out.val
                 /\ UNCHANGED <<error, caught>>
       ELSE /\ caught' = out.msg
            /\ IF cancelRef
               THEN /\ requests' = [requests EXCEPT ![r].status = "discarded"]
                    /\ UNCHANGED <<isSearching, result, error>>
               ELSE /\ requests' = [requests EXCEPT ![r].status = "applied"]
                    /\ isSearching' = FALSE
                    /\ error' = GenericMsg
                    /\ result' = NoResult
    /\ UNCHANGED <<query, cancelRef, searchHistory, clickPending, refused>>
    /\ UNCHANGED <<parserVars, serviceVars, filterVars>>

\* The request r settles with the outcome out of analyzeTopic, and handleSearch
\* goes on after its await.
Settle(r, out) ==
    /\ requests[r].status = "pending"
    /\ IF out.kind = "value"
       THEN IF cancelRef
            THEN /\ requests' = [requests EXCEPT ![r].status = "discarded"]
                 /\ UNCHANGED <<isSearching, result, error, caught>>
            ELSE /\ requests' = [requests EXCEPT ![r].status = "applied"]
                 /\ isSearching' = FALSE
                 /\ result' = out.val
                 /\ UNCHANGED <<error, caught>>
       ELSE /\ caught' = out.msg
            /\ IF cancelRef
               THEN /\ requests' = [requests EXCEPT ![r].status = "discarded"]
                    /\ UNCHANGED <<isSearching, result, error>>
               ELSE /\ requests' = [requests EXCEPT ![r].status = "applied"]
                    /\ isSearching' = FALSE
                    /\ error' = GenericMsg
                    /\ UNCHANGED result
    /\ UNCHANGED <<query, cancelRef, searchHistory, clickPending, refused>>
    /\ UNCHANGED <<parserVars, serviceVars, filterVars>>

RequestSettles ==
    \E r \in 1..Len(requests), settled \in Settlements : Settle(r, settled.out)

\* A call of handleSearch, whatever the view shows (through any of its three
\* callers, or while the button is disabled).
SearchCall ==
    /\ Len(requests) < MaxSearches
    /\ handleSearch
    /\ UNCHANGED <<query, clickPending>>
    /\ UNCHANGED <<parserVars, serviceVars, filterVars>>

\* A slip: stopping also dismisses the error.
StopCall_clearsError ==
    /\ cancelRef' = TRUE
    /\ isSearching' = FALSE
    /\ error' = NoError
    /\ requests' = IF isSearching
                   THEN [requests EXCEPT ![Len(requests)].stopped = TRUE]
                   ELSE requests
    /\ UNCHANGED <<query, result, searchHistory, caught, clickPending, refused>>
    /\ UNCHANGED <<parserVars, serviceVars, filterVars>>

\* A call of handleStop, whatever the view shows: with a search in flight or
\* with none.  stopped marks the search in flight, if there is one.
StopCall ==
    /\ cancelRef' = TRUE
    /\ isSearching' = FALSE
    /\ requests' = IF isSearching
                   THEN [requests EXCEPT ![Len(requests)].stopped = TRUE]
                   ELSE requests
    /\ UNCHANGED <<query, result, error, searchHistory, caught, clickPending, refused>>
    /\ UNCHANGED <<parserVars, serviceVars, filterVars>>

(***************************************************************************)
(* Specifications                                                          *)
(***************************************************************************)
\* AnalysisView as it is mounted: useState(''), useState([]), useState([]).
NoFilter ==
    /\ searchTerm = <<>>
    /\ selectedTags = <<>>
    /\ selectedCreators = <<>>

InitApp ==
    /\ query = <<"">>
    /\ cancelRef = FALSE
    /\ isSearching = FALSE
    /\ result = NoResult
    /\ error = NoError
    /\ searchHistory = <<>>
    /\ requests = <<>>
    /\ caught = ""
    /\ clickPending = FALSE
    /\ refused = FALSE
    /\ NoFilter

\* No call of robustParseJSON is being followed.
NoCall ==
    /\ text = <<>>
    /\ pc = "idle"
    /\ trimmed = <<>>
    /\ fixedText = <<>>
    /\ stack = <<>>
    /\ inString = FALSE
    /\ escaped = FALSE
    /\ i = 0
    /\ outcome = NoOutcome
    /\ parseCalls = 0
    /\ quoteCounts = 0
    /\ scanStack = <<>>
    /\ pushes = 0
    /\ calls = <<>>

\* One call of robustParseJSON on each input, then one more on a padded input.
Init ==
    /\ \E t \in Inputs : FreshCall(t)
    /\ calls = <<>>
    /\ InitApp
    /\ NoAnalysis

Next ==
    \/ DirectAttempt
    \/ QuotePatch
    \/ ScanStep
    \/ ScanExit
    \/ CloseStep
    \/ FinalAttempt
    \/ NextCall

Spec == Init /\ [][Next]_vars

\* A series of calls of robustParseJSON, each on any of the texts.
InitCalls ==
    /\ \E t \in CallInputs : FreshCall(t)
    /\ calls = <<>>
    /\ InitApp
    /\ NoAnalysis

NextCalls ==
    \/ DirectAttempt
    \/ QuotePatch
    \/ ScanStep
    \/ ScanExit
    \/ CloseStep
    \/ FinalAttempt
    \/ CallAgain

SpecCalls == InitCalls /\ [][NextCalls]_vars

\* The App component, its requests settling in any order with any answer.
InitAppSpec == NoCall /\ InitApp /\ NoAnalysis

NextApp ==
    \/ SetQuery
    \/ SubmitForm
    \/ RetrySession
    \/ UseHistoryItem
    \/ TimerClick
    \/ handleStop
    \/ RequestSettles

SpecApp == InitAppSpec /\ [][NextApp]_vars

\* The App component when every request that was started resolves in the end
\* (the promise of analyzeTopic settles: with a value or with an error).
\* A request can settle, with any outcome, exactly while it is pending; so
\* weak fairness of its settling with one fixed outcome says that it does not
\* stay pending forever, and nothing about which outcome it settles with.
RequestResolves(r) ==
    /\ r <= Len(requests)
    /\ Settle(r, Thrown("Error", EmptyReportMsg))

SpecAppFair ==
    /\ InitAppSpec
    /\ [][NextApp]_vars
    /\ \A r \in 1..MaxSearches : WF_vars(RequestResolves(r))

\* Topic queries: as many as fill the history, and two more to push entries out.
MaxTopics == HistoryTail + 3

Topic(n) == <<"topic " \o ToString(n)>>

\* searchHistory after searches for the first n topics, one after the other.
RECURSIVE HistoryAfter(_)
HistoryAfter(n) ==
    IF n = 0 THEN <<>> ELSE NewHistory(HistoryAfter(n - 1), Topic(n))

\* The app after n searches for topics it had not seen, each one stopped and
\* its request since resolved and discarded; requests lists the calls
\* started from here on.
InitHistory ==
    /\ NoCall
    /\ NoAnalysis
    /\ \E n \in 0..(MaxTopics - 1) :
          /\ searchHistory = HistoryAfter(n)
          /\ query = IF n = 0 THEN <<"">> ELSE Topic(n)
          /\ cancelRef = (n > 0)
    /\ isSearching = FALSE
    /\ result = NoResult
    /\ error = NoError
    /\ requests = <<>>
    /\ caught = ""
    /\ clickPending = FALSE
    /\ refused = FALSE
    /\ NoFilter

\* Between two searches the user types a topic: the first one that is not in
\* the history, or one that is.
TypeTopic ==
    /\ ~isSearching
    /\ \E n \in 1..MaxTopics :
          LET Held(m) == \E j \in 1..Len(searchHistory) : searchHistory[j] = Topic(m)
          IN  /\ Held(n) \/ \A m \in 1..(n - 1) : Held(m)
              /\ Topic(n) # query
              /\ query' = Topic(n)
    /\ UNCHANGED <<cancelRef, isSearching, result, error, searchHistory, requests,
                   caught, clickPending, refused>>
    /\ UNCHANGED <<parserVars, serviceVars, filterVars>>

NextHistory ==
    \/ TypeTopic
    \/ SubmitForm
    \/ handleStop

SpecHistory == InitHistory /\ [][NextHistory]_vars

(***************************************************************************)
(* AnalysisView: the filters over the themes and the confusion points of   *)
(* the result it is given.  Texts are sequences of characters.             *)
(***************************************************************************)

\* String.prototype.toLowerCase, on the letters the sample texts are made of.
LowerCase(c) == IF c = "A" THEN "a" ELSE IF c = "B" THEN "b" ELSE c

ToLowerCase(str) == [j \in 1..Len(str) |-> LowerCase(str[j])]

\* String.prototype.includes
Includes(str, term) ==
    \E j \in 0..(Len(str) - Len(term)) : SubSeq(str, j + 1, j + Len(term)) = term

\* Array.prototype.includes
ArrayIncludes(arr, x) == \E j \in 1..Len(arr) : arr[j] = x

matchesSearch(str) ==
    IF searchTerm = <<>> THEN TRUE
    ELSE Includes(ToLowerCase(str), ToLowerCase(searchTerm))

\* The callback of supportingExcerpts.filter, the same in both lists.
ExcerptKept(ex, metadataMatch) ==
    LET tagMatch == selectedTags = <<>> \/ ArrayIncludes(selectedTags, ex.tag)
        creatorMatch ==
            selectedCreators = <<>> \/ ArrayIncludes(selectedCreators, ex.creatorName)
        excerptSearchMatch == matchesSearch(ex.text) \/ matchesSearch(ex.creatorName)
    IN  tagMatch /\ creatorMatch /\ (metadataMatch \/ excerptSearchMatch)

\* What the callback of map returns for an item that is filtered out.
Null == [isNull |-> TRUE]

NotNull(t) == t # Null

\* A slip: an item is kept only if one of its excerpts is.
filteredThemes_needsExcerpt ==
    LET Mapped(theme) ==
            LET themeMetadataMatch ==
                    matchesSearch(theme.theme) \/ matchesSearch(theme.description)
                Kept(ex) == ExcerptKept(ex, themeMetadataMatch)
                filteredExcerpts == SelectSeq(theme.supportingExcerpts, Kept)
            IN  IF Len(filteredExcerpts) > 0
                THEN [theme EXCEPT !.supportingExcerpts = filteredExcerpts]
                ELSE Null
    IN  SelectSeq([j \in 1..Len(result.aggregatedThemes) |->
                      Mapped(result.aggregatedThemes[j])], NotNull)

filteredThemes ==
    LET Mapped(theme) ==
            LET themeMetadataMatch ==
                    matchesSearch(theme.theme) \/ matchesSearch(theme.description)
                Kept(ex) == ExcerptKept(ex, themeMetadataMatch)
                filteredExcerpts == SelectSeq(theme.supportingExcerpts, Kept)
            IN  IF \/ Len(filteredExcerpts) > 0
                   \/ (themeMetadataMatch /\ selectedTags = <<>> /\ selectedCreators = <<>>)
                THEN [theme EXCEPT !.supportingExcerpts = filteredExcerpts]
                ELSE Null
    IN  SelectSeq([j \in 1..Len(result.aggregatedThemes) |->
                      Mapped(result.aggregatedThemes[j])], NotNull)

filteredConfusion ==
    LET Mapped(cp) ==
            LET pointMetadataMatch ==
                    matchesSearch(cp.point) \/ matchesSearch(cp.explanationAttempt)
                Kept(ex) == ExcerptKept(ex, pointMetadataMatch)
                filteredExcerpts == SelectSeq(cp.supportingExcerpts, Kept)
            IN  IF \/ Len(filteredExcerpts) > 0
                   \/ (pointMetadataMatch /\ selectedTags = <<>> /\ selectedCreators = <<>>)
                THEN [cp EXCEPT !.supportingExcerpts = filteredExcerpts]
                ELSE Null
    IN  SelectSeq([j \in 1..Len(result.commonConfusionPoints) |->
                      Mapped(result.commonConfusionPoints[j])], NotNull)

isAnyFilterActive ==
    searchTerm # <<>> \/ Len(selectedTags) > 0 \/ Len(selectedCreators) > 0

\* The creators the toggle buttons are drawn for (their order does not matter here).
allCreators == {result.processedVideos[j].creator : j \in 1..Len(result.processedVideos)}

\* Results to show: lists of at most MaxThemes items, drawn from samples
\* whose names, descriptions and excerpts match the search terms in different
\* places and in different letter case.
MaxThemes == 2

ExcerptA == [text |-> <<"A", "b">>, creatorName |-> <<"a">>, tag |-> "BEGINNER_CONFUSION"]

ExcerptB == [text |-> <<"b", "b">>, creatorName |-> <<"B">>, tag |-> "COMMON_MISTAKE"]

SampleThemes ==
    { [theme |-> <<"a">>, description |-> <<>>, supportingExcerpts |-> <<>>],
      [theme |-> <<"b">>, description |-> <<"A">>,
       supportingExcerpts |-> <<ExcerptA, ExcerptB>>],
      [theme |-> <<"B">>, description |-> <<"b">>,
       supportingExcerpts |-> <<ExcerptB, ExcerptA, ExcerptB>>] }

SamplePoints ==
    { [point |-> t.theme, explanationAttempt |-> t.description,
       supportingExcerpts |-> t.supportingExcerpts] : t \in SampleThemes }

ListsOf(S) == UNION {[1..n -> S] : n \in 0..MaxThemes}

AnalysisResults ==
    { [aggregatedThemes |-> ts, commonConfusionPoints |-> cps,
       processedVideos |-> <<[creator |-> <<"B">>], [creator |-> <<"a">>]>>] :
        ts \in ListsOf(SampleThemes), cps \in ListsOf(SamplePoints) }

SearchTerms == {<<>>, <<"a">>, <<"B">>, <<"a", "B">>}

Tags == {"BEGINNER_CONFUSION", "COMMON_MISTAKE"}

\* onChange of the filter box, and its clear button.
SetSearchTerm ==
    /\ \E t \in SearchTerms : t # searchTerm /\ searchTerm' = t
    /\ UNCHANGED <<selectedTags, selectedCreators>>
    /\ UNCHANGED <<parserVars, appVars, serviceVars>>

Without(arr, x) == LET IsOther(y) == y # x IN SelectSeq(arr, IsOther)

toggleTag ==
    /\ \E tag \in Tags :
          selectedTags' = IF ArrayIncludes(selectedTags, tag)
                          THEN Without(selectedTags, tag)
                          ELSE Append(selectedTags, tag)
    /\ UNCHANGED <<searchTerm, selectedCreators>>
    /\ UNCHANGED <<parserVars, appVars, serviceVars>>

toggleCreator ==
    /\ \E creator \in allCreators :
          selectedCreators' = IF ArrayIncludes(selectedCreators, creator)
                              THEN Without(selectedCreators, creator)
                              ELSE Append(selectedCreators, creator)
    /\ UNCHANGED <<searchTerm, selectedTags>>
    /\ UNCHANGED <<parserVars, appVars, serviceVars>>

\* resetFilters, from the buttons shown while a filter is active.
resetFilters ==
    /\ isAnyFilterActive
    /\ searchTerm' = <<>>
    /\ selectedTags' = <<>>
    /\ selectedCreators' = <<>>
    /\ UNCHANGED <<parserVars, appVars, serviceVars>>

\* The app showing a result: AnalysisView has just been mounted with it.
InitFilters ==
    /\ NoCall
    /\ NoAnalysis
    /\ query = <<"react hooks">>
    /\ cancelRef = FALSE
    /\ isSearching = FALSE
    /\ result \in AnalysisResults
    /\ error = NoError
    /\ searchHistory = <<query>>
    /\ requests = <<>>
    /\ caught = ""
    /\ clickPending = FALSE
    /\ refused = FALSE
    /\ NoFilter

NextFilters ==
    \/ SetSearchTerm
    \/ toggleTag
    \/ toggleCreator
    \/ resetFilters

SpecFilters == InitFilters /\ [][NextFilters]_vars

\* The handlers of the App component called in any order, whatever the view
\* shows: every run of SpecApp is one of these runs.
NextHandlers ==
    \/ SetQuery
    \/ SearchCall
    \/ StopCall
    \/ RequestSettles

SpecHandlers == InitAppSpec /\ [][NextHandlers]_vars

\* One call of analyzeTopic on each answer of the generation service.
InitAnalyze ==
    /\ NoCall
    /\ InitApp
    /\ response \in AnalyzeInputs
    /\ apc = "await"
    /\ parsed = NoValue
    /\ sources = <<>>
    /\ analysis = NoOutcome

NextAnalyze ==
    \/ ModelAnswers
    \/ CheckReport
    \/ ParseReport
    \/ CollectSources
    \/ ReturnResult

SpecAnalyze == InitAnalyze /\ [][NextAnalyze]_vars

(***************************************************************************)
(* Properties                                                              *)
(***************************************************************************)
\* The call of robustParseJSON being followed is over.
CallOver == pc \in {"returned", "thrown"}

\* The call went through the recovery and its final JSON.parse.
Recovered == CallOver /\ parseCalls = 2

IsPrefix(p, s) == Len(p) <= Len(s) /\ SubSeq(s, 1, Len(p)) = p

IsStrictPrefix(p, s) == IsPrefix(p, s) /\ Len(p) < Len(s)

Reverse(s) == [j \in 1..Len(s) |-> s[Len(s) + 1 - j]]

\* {a: "hello"}
HelloValue == ObjV(<< <<"a">> >>, << StrV(<<"h", "e", "l", "l", "o">>) >>)

\* {a: [1, 2, {b: 3}]}
NestedValue ==
    ObjV(<< <<"a">> >>,
         << ArrV(<< NumV(1, 0), NumV(2, 0), ObjV(<< <<"b">> >>, << NumV(3, 0) >>) >>) >>)

C2_StoppedOutcomeNeverApplied ==
    \A r \in 1..Len(requests) :
        requests[r].stopped => requests[r].status # "applied"

\* C3: the call on {"a": "she said \"hi does not fail: a quote and then a brace
\* are appended and a well-formed object is returned.
C3_EscapedQuoteExampleRecovers ==
    (CallOver /\ text = ExEscaped) =>
        /\ pc = "returned"
        /\ fixedText = ExEscapedClosed
        /\ outcome.val.t = "object"

\* C4 as claimed: whenever the direct parse fails, the text handed to the final
\* parse has the trimmed text as a strict prefix (something is appended).
C4_RepairedIsStrictExtension ==
    Recovered => IsStrictPrefix(Trim(text), fixedText)

\* C4 as amended: throughout the recovery the repaired text has the trimmed
\* text as a prefix, every character in place; a character is appended exactly
\* when the quote count is odd or the scan left a bracket open.
C4_RepairedIsExtension ==
    /\ pc \in {"quote", "scan", "close"} \/ Recovered =>
          /\ trimmed = Trim(text)
          /\ IsPrefix(trimmed, fixedText)
    /\ Recovered =>
          (fixedText # trimmed <=> (quoteCount(trimmed) % 2 = 1 \/ scanStack # <<>>))

C4_Witness ==
    /\ Recovered
    /\ IsStrictPrefix(trimmed, fixedText)
    /\ Len(fixedText) >= Len(trimmed) + 2
    /\ text # trimmed

\* C5: the closers appended after the scan are those the scan left on the
\* stack, innermost first; {"a": [1, 2, {"b": 3 is repaired to
\* {"a": [1, 2, {"b": 3}]} and parses to {a: [1, 2, {b: 3}]}.
C5_ClosersInnermostFirst ==
    LET patched == SubSeq(fixedText, 1, i - 1) IN
    /\ pc = "close" => fixedText \o Reverse(stack) = patched \o Reverse(scanStack)
    /\ Recovered => fixedText = patched \o Reverse(scanStack)
    /\ (Recovered /\ text = ExNested) =>
          /\ fixedText = ExNestedRepaired
          /\ outcome = Returned(NestedValue)

C5_Witness ==
    /\ pc = "returned"
    /\ text = ExNested
    /\ scanStack = <<"}", "]", "}">>
    /\ fixedText = ExNestedRepaired

\* C6: when the direct parse fails, one quote is appended if the trimmed text
\* holds an odd number of quotes and none otherwise; {"a": "hello is repaired
\* to {"a": "hello"} and parses to {a: "hello"}.
C6_QuoteAppendedIffOdd ==
    LET odd == quoteCount(trimmed) % 2 = 1 IN
    /\ pc = "scan" => fixedText = (IF odd THEN Append(trimmed, "\"") ELSE trimmed)
    /\ pc \in {"scan", "close"} \/ Recovered =>
          quoteCount(fixedText) = quoteCount(trimmed) + (IF odd THEN 1 ELSE 0)
    /\ (Recovered /\ text = ExHello) =>
          /\ fixedText = ExHelloRepaired
          /\ outcome = Returned(HelloValue)

C6_Witness ==
    /\ pc = "returned"
    /\ text = ExHello
    /\ fixedText = ExHelloRepaired

\* C7: a call ends either with a fully parsed value or with the error of the
\* fixed message; no exception of JSON.parse escapes ({"a": } ends with the
\* fixed-message error), and neither loop of the recovery can get stuck.
C7_ValueOrFixedError ==
    /\ pc = "returned" =>
          LET reparsed == JSONParse(IF parseCalls = 1 THEN trimmed ELSE fixedText) IN
          reparsed.ok /\ outcome = Returned(reparsed.val)
    /\ pc = "thrown" => outcome = Thrown("Error", MalformedMsg)
    /\ pc \in {"direct", "quote", "scan", "close"} => outcome = NoOutcome
    /\ pc = "scan" => ENABLED (ScanStep \/ ScanExit)
    /\ pc = "close" => ENABLED (CloseStep \/ FinalAttempt)
    /\ (CallOver /\ text = ExUnrecoverable) => pc = "thrown"

C7_Witness ==
    /\ pc = "thrown"
    /\ text = ExUnrecoverable
    /\ outcome.msg = MalformedMsg

\* C8: when robustParseJSON has failed in a search that was not stopped, the
\* error shown is the parser's message.
C8_ParserMessageShown ==
    (error # NoError /\ caught = MalformedMsg) => error = MalformedMsg

\* C9: when the direct parse of the trimmed text succeeds the call returns at
\* once: no quote count, no scan, no repaired text, one JSON.parse only.
C9_ValidTextSkipsRecovery ==
    (pc # "idle" /\ JSONParse(Trim(text)).ok) =>
        /\ pc \in {"direct", "returned"}
        /\ quoteCounts = 0
        /\ i = 0
        /\ fixedText = <<>>
        /\ stack = <<>>
        /\ parseCalls = (IF pc = "returned" THEN 1 ELSE 0)

C9_Witness ==
    /\ pc = "returned"
    /\ parseCalls = 1
    /\ quoteCounts = 0
    /\ text = <<"[", "1", "]">>

\* C10: a call on a text inside leading and trailing whitespace ends as the
\* call on the text itself did, and works on the trimmed text only.
C10_PaddingChangesNothing ==
    /\ (CallOver /\ calls # <<>>
          /\ \E lead \in Paddings, trail \in Paddings :
                text = lead \o calls[1].text \o trail)
          => outcome = calls[1].outcome
    /\ pc \in {"quote", "scan", "close", "returned", "thrown"} => trimmed = Trim(text)

C10_Witness ==
    /\ Recovered
    /\ calls # <<>>
    /\ text = <<"\n", NBSP>> \o calls[1].text \o <<" ">>
    /\ outcome.kind = "value"
    /\ outcome = calls[1].outcome

\* C11: in a series of calls on any texts in any order, every call ends in the
\* outcome that is a function of its own text alone, so two calls on the same
\* text end alike whatever was called before or between them; and every scan
\* begins with an empty stack and both flags false.
C11_OutcomeDependsOnTextOnly ==
    /\ \A c \in 1..Len(calls) : calls[c].outcome = RobustParseJSON(calls[c].text)
    /\ CallOver => outcome = RobustParseJSON(text)
    /\ (pc = "scan" /\ i = 1) => (stack = <<>> /\ ~inString /\ ~escaped)

C11_Witness ==
    /\ CallOver
    /\ Len(calls) = 2
    /\ calls[1].text = ExNested
    /\ calls[2].text = ExEscaped
    /\ text = ExNested
    /\ outcome = calls[1].outcome
    /\ outcome.kind = "value"

\* The call being followed has begun and is not over.
InCall == pc \in {"direct", "quote", "scan", "close"}

\* A bound on the steps the call still has to take, linear in the text.
StepsLeft ==
    CASE pc = "direct" -> 2 * Len(text) + 6
      [] pc = "quote"  -> 2 * Len(fixedText) + 5
      [] pc = "scan"   -> 2 * (Len(fixedText) + 1 - i) + Len(stack) + 2
      [] pc = "close"  -> Len(stack) + 1
      [] OTHER         -> 0

\* The closers appended so far (the scan stopped at i, one past the patched text).
ClosersAppended == Len(fixedText) - (i - 1)

\* C12: a call runs JSON.parse at most twice and counts the quotes at most
\* once; the scan visits the characters of the quote-patched text once each,
\* left to right, and leaves the text alone; no more closers are appended than
\* the scan pushed; and every step of a call lowers a bound on the steps left
\* that is linear in the text, so the call terminates.
C12_BoundedWork ==
    /\ [](/\ parseCalls <= 2
          /\ quoteCounts <= 1
          /\ pc = "scan" =>
                /\ i \in 1..(Len(fixedText) + 1)
                /\ fixedText = QuotePatched(trimmed)
                /\ pushes <= i - 1
                /\ Len(stack) <= pushes
          /\ pc = "close" \/ Recovered =>
                /\ i - 1 = Len(QuotePatched(trimmed))
                /\ ClosersAppended + Len(stack) = Len(scanStack)
                /\ Len(scanStack) <= pushes
          /\ Recovered => ClosersAppended <= pushes)
    /\ [][/\ InCall => StepsLeft' < StepsLeft
          /\ (pc = "scan" /\ pc' = "scan") => (i' = i + 1 /\ fixedText' = fixedText)]_vars

C12_Witness ==
    /\ Recovered
    /\ text = <<"{", "}", "[">>
    /\ i = 4
    /\ pushes = 2
    /\ ClosersAppended = 1
    /\ fixedText = <<"{", "}", "[", "]">>

\* The text the returned value was parsed from.
ParsedText == IF parseCalls = 1 THEN trimmed ELSE fixedText

\* The "key": value pairs an object's text writes, from the opening quote of
\* a key on: each pair as written, in the order of the text, repeats included.
RECURSIVE MembersInText(_, _, _)
MembersInText(s, j, acc) ==
    IF j > Len(s) \/ s[j] # "\"" THEN acc
    ELSE CHOOSE out \in
        { LET colon == SkipWs(s, key.next) IN
          IF ~key.ok \/ colon > Len(s) \/ s[colon] # ":" THEN acc
          ELSE CHOOSE out2 \in
              { LET k == SkipWs(s, r.next) IN
                IF ~r.ok THEN acc
                ELSE IF k <= Len(s) /\ s[k] = ","
                     THEN MembersInText(s, SkipWs(s, k + 1),
                                        Append(acc, [key |-> key.val.s, val |-> r.val]))
                ELSE Append(acc, [key |-> key.val.s, val |-> r.val])
                : r \in {ParseValue(s, SkipWs(s, colon + 1))} } : TRUE
          : key \in {ParseString(s, j)} } : TRUE

\* The pairs of the object that is the whole text s.
TopMembers(s) ==
    LET open == SkipWs(s, 1) IN
    IF open <= Len(s) /\ s[open] = "{"
    THEN MembersInText(s, SkipWs(s, open + 1), <<>>)
    ELSE <<>>

\* C13 as claimed: a returned object lists its keys, with their values, exactly
\* as the text parsed writes them: same order, nothing merged, nothing sorted.
C13_KeysExactlyAsInText ==
    (pc = "returned" /\ outcome.val.t = "object") =>
        LET ms == TopMembers(ParsedText) IN
        /\ outcome.val.keys = [m \in 1..Len(ms) |-> ms[m].key]
        /\ outcome.val.kids = [m \in 1..Len(ms) |-> ms[m].val]

\* C13 as amended: a returned object lists each key of the text once, the
\* array-index keys first in ascending numeric order, then the other keys in
\* the order of their first appearance, each with the value of its last
\* appearance; array elements keep the order of the text.
\* {"b":1,"10":2,"a":3,"9":4,"b":5} gives {9: 4, 10: 2, b: 5, a: 3}.
C13_KeysInEnumerationOrder ==
    /\ (pc = "returned" /\ outcome.val.t = "object") =>
          LET ms == TopMembers(ParsedText)
              keys == outcome.val.keys
              kids == outcome.val.kids
              Places(k) == {m \in 1..Len(ms) : ms[m].key = k}
              FirstOf(k) == CHOOSE m \in Places(k) : \A m2 \in Places(k) : m <= m2
              LastOf(k) == CHOOSE m \in Places(k) : \A m2 \in Places(k) : m >= m2
              NumberOf(k) == DigitsValue(k, 1, Len(k) + 1)
          IN  /\ {keys[n] : n \in 1..Len(keys)} = {ms[m].key : m \in 1..Len(ms)}
              /\ Len(kids) = Len(keys)
              /\ \A n \in 1..Len(keys) : kids[n] = ms[LastOf(keys[n])].val
              /\ \A a, b \in 1..Len(keys) : a < b =>
                    /\ keys[a] # keys[b]
                    /\ IsIndexKey(keys[b]) =>
                          /\ IsIndexKey(keys[a])
                          /\ NumberOf(keys[a]) < NumberOf(keys[b])
                    /\ (~IsIndexKey(keys[a]) /\ ~IsIndexKey(keys[b])) =>
                          FirstOf(keys[a]) < FirstOf(keys[b])
    /\ (CallOver /\ text = ExKeys) =>
          outcome = Returned(ObjV(<< <<"9">>, <<"1", "0">>, <<"b">>, <<"a">> >>,
                                  << NumV(4, 0), NumV(2, 0), NumV(5, 0), NumV(3, 0) >>))
    /\ (CallOver /\ text = ExKeysTruncated) =>
          outcome = Returned(ObjV(<< <<"9">>, <<"1", "0">>, <<"b">>, <<"a">> >>,
                                  << NumV(4, 0), NumV(2, 0),
                                     ArrV(<< NumV(5, 0), NumV(6, 0) >>), NumV(3, 0) >>))
    /\ (CallOver /\ text = ExComplete) =>
          /\ outcome.val.keys = << <<"b">>, <<"a">> >>
          /\ outcome.val.kids[1] = ArrV(<< LitV(<<"t", "r", "u", "e">>), LitV(<<"n", "u", "l", "l">>) >>)

C13_Witness ==
    /\ Recovered
    /\ text = ExKeysTruncated
    /\ Len(TopMembers(fixedText)) = 5
    /\ outcome.val.keys = << <<"9">>, <<"1", "0">>, <<"b">>, <<"a">> >>

\* What the recovery appended to the trimmed text.
RepairSuffix == SubSeq(ParsedText, Len(Trim(text)) + 1, Len(ParsedText))

\* C14: a returned value is JSON.parse of a valid JSON text, which is the
\* trimmed input, or the trimmed input followed by what the recovery appended
\* (at most one quote, then closers); and a value of any shape is returned:
\* whenever the trimmed or the repaired text is valid JSON the call returns.
C14_ReturnsParseOfValidText ==
    /\ pc = "returned" =>
          /\ JSONParse(ParsedText).ok
          /\ outcome = Returned(JSONParse(ParsedText).val)
          /\ IsPrefix(Trim(text), ParsedText)
          /\ parseCalls = 1 => ParsedText = Trim(text)
          /\ parseCalls = 2 =>
                /\ ~JSONParse(Trim(text)).ok
                /\ ParsedText = Repaired(Trim(text))
                /\ \A j \in 1..Len(RepairSuffix) :
                      \/ RepairSuffix[j] \in {"}", "]"}
                      \/ j = 1 /\ RepairSuffix[j] = "\""
    /\ (CallOver /\ (JSONParse(Trim(text)).ok \/ JSONParse(Repaired(Trim(text))).ok)) =>
          pc = "returned"

C14_Witness ==
    /\ Recovered
    /\ pc = "returned"
    /\ text = <<" ", "[", "\"">>
    /\ RepairSuffix = <<"\"", "]">>
    /\ outcome = Returned(ArrV(<< StrV(<<>>) >>))

\* The backslashes that stand in a row right before position j, after position from.
RECURSIVE BackslashRun(_, _, _)
BackslashRun(s, j, from) ==
    IF j - 1 > from /\ s[j - 1] = "\\" THEN 1 + BackslashRun(s, j - 1, from) ELSE 0

\* Where the string literal opened by the quote at position open is closed: at
\* the first later quote with an even number of backslashes right before it
\* (one past the text when there is none).
StringEnd(s, open) ==
    LET closing == {q \in (open + 1)..Len(s) :
                       s[q] = "\"" /\ BackslashRun(s, q, open) % 2 = 0}
    IN  IF closing = {} THEN Len(s) + 1
        ELSE CHOOSE q \in closing : \A q2 \in closing : q <= q2

\* The string literals of s from position p on, p outside any string: the
\* positions <<opening quote, closing quote>> of each.
RECURSIVE Literals(_, _)
Literals(s, p) ==
    LET opening == {q \in p..Len(s) : s[q] = "\""} IN
    IF opening = {} THEN {}
    ELSE LET open == CHOOSE q \in opening : \A q2 \in opening : q <= q2
             close == StringEnd(s, open)
         IN  {<<open, close>>} \cup Literals(s, close + 1)

\* The character at position j lies inside a string literal, between its quotes.
InsideString(s, j) == \E l \in Literals(s, 1) : l[1] < j /\ j < l[2]

Brackets == {"{", "[", "}", "]"}

\* C15: an iteration of the scan on a bracket or brace that lies inside a
\* string literal leaves the stack as it is, and an iteration that changes the
\* stack is on a bracket or brace outside every string literal; before each
\* iteration inString tells whether the character is inside a literal or is
\* its closing quote.
C15_BracketsInStringsIgnored ==
    /\ []((pc = "scan" /\ i <= Len(fixedText)) =>
            (inString <=> \E l \in Literals(fixedText, 1) : l[1] < i /\ i <= l[2]))
    /\ [][(pc = "scan" /\ pc' = "scan") =>
            LET char == fixedText[i]
                inside == InsideString(fixedText, i)
            IN  /\ (char \in Brackets /\ inside) => stack' = stack
                /\ stack' # stack => (char \in Brackets /\ ~inside)]_vars

C15_Witness ==
    /\ Recovered
    /\ text = <<"[", "\"", "]">>
    /\ InsideString(fixedText, 3)
    /\ pushes = 1
    /\ scanStack = <<"]">>
    /\ outcome = Returned(ArrV(<< StrV(<<"]">>) >>))

\* C16: while the scan is inside a string, escaped is set exactly when an
\* odd number of backslashes stand in a row right before the character, and a
\* quote there ends the string exactly when that number is even (zero
\* included); outside strings escaped is never set.  ["\\" is closed after its
\* two backslashes and recovers to ["\\"].
C16_QuoteClosesAfterEvenBackslashes ==
    /\ []((pc = "scan" /\ i <= Len(fixedText)) =>
            /\ inString => (escaped <=> BackslashRun(fixedText, i, 0) % 2 = 1)
            /\ ~inString => ~escaped)
    /\ [][(pc = "scan" /\ pc' = "scan" /\ inString) =>
            /\ fixedText[i] = "\"" =>
                  (~inString' <=> BackslashRun(fixedText, i, 0) % 2 = 0)
            /\ fixedText[i] # "\"" => inString'
            /\ escaped' = (fixedText[i] = "\\" /\ ~escaped)]_vars
    /\ []((Recovered /\ text = ExDoubleBackslash) =>
            /\ ~inString
            /\ outcome = Returned(ArrV(<< StrV(<<"\\">>) >>)))

C16_Witness ==
    /\ pc = "scan"
    /\ text = ExDoubleBackslash
    /\ i = 6
    /\ ~inString
    /\ ~escaped
    /\ stack = <<"]">>

\* C17: a scan iteration on } or ] outside every string removes the top of the
\* stack when the stack is not empty and its top is that character, and
\* otherwise (empty stack, or the other closer on top) leaves the stack as it
\* is; either way the scan goes on to the next character and the call has
\* thrown nothing: no call ends during the scan.
C17_UnmatchedCloserIgnored ==
    /\ [][(/\ pc = "scan" /\ pc' = "scan"
           /\ fixedText[i] \in {"}", "]"}
           /\ ~InsideString(fixedText, i)) =>
            /\ IF Len(stack) > 0 /\ stack[Len(stack)] = fixedText[i]
               THEN stack' = SubSeq(stack, 1, Len(stack) - 1)
               ELSE stack' = stack
            /\ i' = i + 1
            /\ outcome' = NoOutcome]_vars
    /\ []((pc = "scan" /\ i <= Len(fixedText)) => (ENABLED ScanStep /\ outcome = NoOutcome))
    /\ [][pc = "scan" => pc' \in {"scan", "close"}]_vars

C17_Witness ==
    /\ pc = "scan"
    /\ text = <<"[", "}", "{">>
    /\ i = 3
    /\ stack = <<"]">>
    /\ pushes = 1

\* Every string literal of s is closed: s ends outside any string.
EndsOutsideString(s) == \A l \in Literals(s, 1) : l[2] <= Len(s)

\* C18: when the direct parse has failed on a text that ends outside every
\* string literal and holds an odd number of quotes, a quote is appended all
\* the same, before any closer; {"a": "x\"y" and ["\"" are such texts.
C18_QuoteAppendedOutsideString ==
    /\ (/\ pc \in {"scan", "close"} \/ Recovered
        /\ quoteCount(trimmed) % 2 = 1
        /\ EndsOutsideString(trimmed)) =>
          /\ IsPrefix(Append(trimmed, "\""), fixedText)
          /\ \A j \in (Len(trimmed) + 2)..Len(fixedText) : fixedText[j] \in {"}", "]"}
    /\ \A t \in {ExOddOutside, ExOddOutsideArray} :
          quoteCount(t) % 2 = 1 /\ EndsOutsideString(t) /\ ~JSONParse(t).ok

C18_Witness ==
    /\ Recovered
    /\ text = ExOddOutside
    /\ EndsOutsideString(trimmed)
    /\ quoteCount(trimmed) = 5
    /\ fixedText = trimmed \o <<"\"", "}">>
    /\ pc = "thrown"
    /\ JSONParse(Append(trimmed, "}")).ok

\* C19: pressing Stop (the step that sets the cancel flag) clears isSearching
\* in the same step and changes nothing else: every request, the stopped one
\* included, is as pending as before and result and error are untouched; a
\* stopped request can still resolve, and a request leaves the pending state
\* only in the step in which it resolves, where the flag is read and not
\* written.
C19_StopLeavesRequestPending ==
    /\ [](isSearching => ~cancelRef)
    /\ [][(~cancelRef /\ cancelRef') =>
            /\ isSearching /\ ~isSearching'
            /\ Len(requests') = Len(requests)
            /\ \A r \in 1..Len(requests) : requests'[r].status = requests[r].status
            /\ requests[Len(requests)].status = "pending"
            /\ requests'[Len(requests)].stopped
            /\ UNCHANGED <<query, result, error, searchHistory, caught>>]_vars
    /\ [](\A r \in 1..Len(requests) :
            (requests[r].stopped /\ requests[r].status = "pending") =>
                ENABLED Settle(r, Thrown("Error", EmptyReportMsg)))
    /\ [][\A r \in 1..Len(requests) :
            (requests[r].status = "pending" /\ requests'[r].status # "pending") =>
                /\ cancelRef' = cancelRef
                /\ requests'[r].status = (IF cancelRef THEN "discarded" ELSE "applied")
                /\ \A r2 \in 1..Len(requests) : r2 # r => requests'[r2] = requests[r2]]_vars

C19_Witness ==
    /\ Len(requests) = 1
    /\ requests[1].stopped
    /\ requests[1].status = "pending"
    /\ cancelRef
    /\ ~isSearching
    /\ result = NoResult
    /\ error = NoError

\* The value under key k of the object v (NoValue when v has no such key).
ValueAt(v, k) ==
    IF IndexOfKey(v.keys, k) = 0 THEN NoValue ELSE v.kids[IndexOfKey(v.keys, k)]

\* C20: the result analyzeTopic returns has exactly one sources key; its value
\* is the list, in order, of the response's grounding chunks that have a
\* non-empty uri, each as {uri, title}, and the empty list when the response
\* has no grounding metadata.  A sources key of the parsed report never shows
\* (for {"sources":["z"],"topic":"x"} the result's sources are the grounding
\* ones), and every other key of the parsed report is kept with its value.
C20_SourcesFromGroundingOnly ==
    apc = "returned" =>
        LET res == analysis.val
            src == ValueAt(res, SourcesKey)
            HasUri(c) == c.uri # <<>>
            kept == IF response.grounded THEN SelectSeq(response.chunks, HasUri) ELSE <<>>
            body == JSONParse(IF JSONParse(Trim(response.text)).ok
                              THEN Trim(response.text)
                              ELSE Repaired(Trim(response.text))).val
        IN  /\ analysis.kind = "value"
            /\ res.t = "object"
            /\ Cardinality({n \in 1..Len(res.keys) : res.keys[n] = SourcesKey}) = 1
            /\ src.t = "array"
            /\ Len(src.kids) = Len(kept)
            /\ \A n \in 1..Len(kept) :
                  /\ src.kids[n].t = "object"
                  /\ src.kids[n].keys = <<UriKey, TitleKey>>
                  /\ src.kids[n].kids[1] = StrV(kept[n].uri)
                  /\ src.kids[n].kids[1].s # <<>>
                  /\ src.kids[n].kids[2] =
                        StrV(IF kept[n].title = <<>> THEN DefaultTitle ELSE kept[n].title)
            /\ ~response.grounded => src = ArrV(<<>>)
            /\ response.text \in {ExSources, ExSourcesTruncated} =>
                  /\ ValueAt(body, SourcesKey) = ArrV(<< StrV(<<"z">>) >>)
                  /\ src # ValueAt(body, SourcesKey)
            /\ body.t = "object" =>
                  /\ \A n \in 1..Len(body.keys) :
                        body.keys[n] # SourcesKey =>
                            ValueAt(res, body.keys[n]) = body.kids[n]
                  /\ {res.keys[n] : n \in 1..Len(res.keys)}
                        = {body.keys[n] : n \in 1..Len(body.keys)} \cup {SourcesKey}

C20_Witness ==
    /\ apc = "returned"
    /\ response.text = ExSources
    /\ response.grounded
    /\ Len(response.chunks) = 2
    /\ response.chunks[1].uri = <<>>
    /\ response.chunks[2].uri = <<"v">>
    /\ analysis.val.keys = <<SourcesKey, <<"t", "o", "p", "i", "c">> >>
    /\ Len(ValueAt(analysis.val, SourcesKey).kids) = 1

\* C21: a call of handleSearch with a blank query, or with a query in URL mode
\* one of whose parts is not a valid YouTube URL, starts no request and leaves
\* isSearching, result, error, searchHistory and the cancel flag as they
\* were; and a request is started only for a query that passes both guards.
C21_RefusedSearchChangesNothing ==
    /\ [][(~refused /\ refused') =>
            /\ \/ IsBlank(query)
               \/ /\ parsedAnalysisInput(query).type = "url"
                  /\ \E j \in 1..Len(parsedAnalysisInput(query).items) :
                        ~YT_URL_REGEX(parsedAnalysisInput(query).items[j].text)
            /\ UNCHANGED <<cancelRef, isSearching, result, error, searchHistory,
                           requests, query>>]_vars
    /\ [][Len(requests') > Len(requests) =>
            /\ ~IsBlank(query)
            /\ parsedAnalysisInput(query).allValid
            /\ ~refused']_vars

C21_Witness ==
    /\ refused
    /\ parsedAnalysisInput(query).type = "url"
    /\ ~parsedAnalysisInput(query).allValid
    /\ cancelRef
    /\ ~isSearching
    /\ Len(requests) = 1

\* C27: the step of handleStop, the only one that sets the cancel flag,
\* leaves isSearching false and result, error, searchHistory and the query
\* as they were, and settles no request; called with no search in flight it
\* sets the flag and changes nothing else that the view shows; and it can be
\* called in every state.
C27_StopChangesFlagAndSearchingOnly ==
    /\ [][(~cancelRef /\ cancelRef') =>
            /\ ~isSearching'
            /\ UNCHANGED <<result, error, searchHistory, query>>
            /\ Len(requests') = Len(requests)
            /\ \A r \in 1..Len(requests) : requests'[r].status = requests[r].status
            /\ ~isSearching => UNCHANGED <<isSearching, requests>>]_vars
    /\ [][(isSearching /\ ~isSearching' /\ cancelRef') =>
            UNCHANGED <<result, error, searchHistory, query>>]_vars
    /\ [](ENABLED StopCall)

C27_Witness ==
    /\ cancelRef
    /\ ~isSearching
    /\ error # NoError
    /\ result # NoResult
    /\ \A r \in 1..Len(requests) : ~requests[r].stopped
    /\ Len(requests) = 2

\* C25: while isSearching is true the error is null: the step that starts a
\* search clears the error, and every step that sets an error leaves
\* isSearching false.
C25_NoErrorWhileSearching ==
    /\ [](isSearching => error = NoError)
    /\ [][Len(requests') > Len(requests) => isSearching' /\ error' = NoError]_vars
    /\ [][(error' # error /\ error' # NoError) => ~isSearching']_vars

C25_Witness ==
    /\ isSearching
    /\ error = NoError
    /\ result = NoResult
    /\ caught # ""
    /\ \E r \in 1..Len(requests) : requests[r].status = "applied"

\* C26: the step in which a search fails (its error is caught and applied)
\* changes isSearching and error only: result, searchHistory, the query and
\* the cancel flag stay; the step that starts a search keeps result; and
\* whenever an error and a result are both held, the view shows the error.
C26_FailureKeepsResult ==
    /\ [][(caught' # caught \/ (error' # error /\ error' # NoError)) =>
            UNCHANGED <<result, searchHistory, query, cancelRef>>]_vars
    /\ [][(error' # error /\ error' # NoError) =>
            ~isSearching' /\ error' = GenericMsg]_vars
    /\ [][Len(requests') > Len(requests) => result' = result]_vars
    /\ []((~isSearching /\ error # NoError /\ result # NoResult) => View = "error")
    /\ []((~isSearching /\ error = NoError /\ result # NoResult) => View = "result")

C26_Witness ==
    /\ View = "error"
    /\ result # NoResult
    /\ error = GenericMsg
    /\ Len(searchHistory) = 2
    /\ \A r \in 1..Len(requests) : requests[r].status = "applied" /\ ~requests[r].stopped

\* C23: while the most recently submitted search is still in flight and has
\* not been stopped, isSearching is true; no step clears isSearching while
\* that search stays in flight and unstopped.
C23_SearchingWhileLatestInFlight ==
    /\ [](\/ requests = <<>>
          \/ requests[Len(requests)].status # "pending"
          \/ requests[Len(requests)].stopped
          \/ isSearching)
    /\ [][(isSearching /\ ~isSearching') =>
            \/ requests'[Len(requests')].status # "pending"
            \/ requests'[Len(requests')].stopped]_vars

\* C24: when every started request resolves in the end, every state with
\* isSearching true is followed by a state with isSearching false: the
\* loading view never stays up forever.
C24_SearchingEnds == isSearching ~> ~isSearching

C24_Witness ==
    /\ ~isSearching
    /\ Len(requests) = 3
    /\ requests[1].status = "discarded"
    /\ requests[2].status = "applied" /\ ~requests[2].stopped
    /\ requests[3].status = "pending" /\ requests[3].stopped

\* C22: searchHistory never has more than 10 entries and never holds the same
\* string twice; it changes only when a search is accepted, and then the
\* submitted query is its first entry and the other entries keep their order,
\* so a query that was already in the history moves to the front.
C22_HistoryBoundedAndDistinct ==
    /\ [](Len(searchHistory) <= 10)
    /\ [](\A j, k \in 1..Len(searchHistory) :
            searchHistory[j] = searchHistory[k] => j = k)
    /\ [][searchHistory' # searchHistory => Len(requests') > Len(requests)]_vars
    /\ [][Len(requests') > Len(requests) =>
            LET IsOther(h) == h # query IN
            /\ searchHistory'[1] = query
            /\ SubSeq(searchHistory', 2, Len(searchHistory')) =
                   Take(SelectSeq(searchHistory, IsOther), 9)]_vars

C22_Witness ==
    /\ Len(requests) = 2
    /\ Len(searchHistory) = 10
    /\ searchHistory[1] = Topic(5)
    /\ searchHistory[2] = Topic(11)
    /\ searchHistory[10] = Topic(2)

\* a is b with some of its elements left out, the others in b's order.
RECURSIVE IsSubsequence(_, _)
IsSubsequence(a, b) ==
    IF a = <<>> THEN TRUE
    ELSE IF b = <<>> THEN FALSE
    ELSE IF Head(a) = Head(b) THEN IsSubsequence(Tail(a), Tail(b))
    ELSE IsSubsequence(a, Tail(b))

\* The item f is the item t with some of its excerpts left out.
ThinnedFrom(f, t) ==
    /\ DOMAIN f = DOMAIN t
    /\ \A k \in DOMAIN t : k # "supportingExcerpts" => f[k] = t[k]
    /\ IsSubsequence(f.supportingExcerpts, t.supportingExcerpts)

\* The items of a are items of b thinned, in b's order.
RECURSIVE ThinnedList(_, _)
ThinnedList(a, b) ==
    IF a = <<>> THEN TRUE
    ELSE IF b = <<>> THEN FALSE
    ELSE IF ThinnedFrom(Head(a), Head(b)) THEN ThinnedList(Tail(a), Tail(b))
    ELSE ThinnedList(a, Tail(b))

\* C28: whatever the search term and the selected tags and creators,
\* filteredThemes and filteredConfusion are the original lists with items left
\* out and, in the items kept, excerpts left out: nothing is added, changed
\* or reordered; with no filter active, as after resetFilters, they are the
\* original lists with all their excerpts.
C28_FiltersOnlyLeaveOut ==
    /\ [](ThinnedList(filteredThemes, result.aggregatedThemes))
    /\ [](ThinnedList(filteredConfusion, result.commonConfusionPoints))
    /\ [](~isAnyFilterActive =>
            /\ filteredThemes = result.aggregatedThemes
            /\ filteredConfusion = result.commonConfusionPoints)
    /\ [](isAnyFilterActive =>
            ENABLED (/\ resetFilters
                     /\ filteredThemes' = result.aggregatedThemes
                     /\ filteredConfusion' = result.commonConfusionPoints))

C28_Witness ==
    /\ searchTerm = <<"B">>
    /\ selectedTags = <<"COMMON_MISTAKE">>
    /\ Len(result.aggregatedThemes) = 2
    /\ Len(filteredThemes) = 1
    /\ Len(result.aggregatedThemes[2].supportingExcerpts) = 3
    /\ Len(filteredThemes[1].supportingExcerpts) = 2
    /\ Len(result.commonConfusionPoints) = 2
    /\ Len(filteredConfusion) = 2

\* What the recovery has appended to the trimmed text so far.
Appended == SubSeq(fixedText, Len(trimmed) + 1, Len(fixedText))

\* The `{` and `[` among the first n characters of s.
Openers(s, n) == Cardinality({j \in 1..n : s[j] \in {"{", "["}})

\* C29: throughout the recovery, and when it is over whether it returned or
\* threw, the text is the trimmed input followed by at most one double-quote
\* and then by `}` and `]` only, no more of them than the scan pushed (a push
\* for a `{` or `[` it read, never more than it read); and the stack holds
\* nothing but `}` and `]`.
C29_SuffixShape ==
    (pc \in {"scan", "close"} \/ Recovered) =>
        LET quotes == IF Appended # <<>> /\ Appended[1] = "\"" THEN 1 ELSE 0
            closers == SubSeq(Appended, quotes + 1, Len(Appended))
        IN  /\ IsPrefix(trimmed, fixedText)
            /\ \A j \in 1..Len(closers) : closers[j] \in {"}", "]"}
            /\ Len(closers) <= pushes
            /\ pushes <= Openers(fixedText, i - 1)
            /\ pc = "scan" => closers = <<>>
            /\ \A j \in 1..Len(stack) : stack[j] \in {"}", "]"}
            /\ \A j \in 1..Len(scanStack) : scanStack[j] \in {"}", "]"}

C29_Witness ==
    /\ pc = "thrown"
    /\ parseCalls = 2
    /\ Appended = <<"\"", "}", "]">>
    /\ pushes = 2
    /\ stack = <<>>

=============================================================================
